---- MODULE Spec2Model ----
(***************************************************************************)
(* knex-migrator: the migration state machine and the integrity check.     *)
(*                                                                         *)
(* The repository holds two revisions of the orchestrator:                 *)
(*   impl = "lock"   src/lib/index.js      one transaction per run, guarded *)
(*                                         by lock()/unlock()               *)
(*   impl = "renew"  src/unnamed/part_000  transactional(ops): the         *)
(*                                         transaction is renewed after a   *)
(*                                         task answers implicitCommits     *)
(* Both are modelled; impl is fixed by Init and never changes.             *)
(*                                                                         *)
(* The database: a statement of an open transaction is pending until       *)
(* COMMIT; a read sees the committed rows and the transaction's own        *)
(* pending rows; SELECT ... FOR UPDATE holds a row lock until the          *)
(* transaction ends. ddlCommits tells the two engines of the test suite    *)
(* apart: on MySQL (TRUE) a DDL statement commits the open transaction and *)
(* leaves the connection in autocommit mode, on SQLite (FALSE) it is one   *)
(* more pending statement ("sqlite doesn't use autocommits inside an       *)
(* explicit transaction", test/implicit_commits_spec.js).                  *)
(* database is what the configured connection finds when it looks a row    *)
(* up: "ok", "unselected" (database.connection.database = ""), "missing"   *)
(* (the database does not exist) or "denied" (any other refusal of the     *)
(* driver). reset drops the database, init creates it when it is missing;  *)
(* no run is started on a database that is unselected or denied, only the  *)
(* health check.                                                           *)
(* absent holds the directories of the migration path that do not exist:   *)
(* "init" (<migrationPath>/init) and "versions" (the versions root,        *)
(* <migrationPath>/<subfolder>); a tree without versions root has no       *)
(* version folder.                                                         *)
(* ddl holds the tasks whose body issues a DDL statement.                  *)
(* self holds the fields of the KnexMigrator objects: connection, the      *)
(* connection database.connect answered last, and transacting, the         *)
(* transaction handle part_000 keeps on the object. A run is called on an  *)
(* object of its own, unless shared says that the operations of the two    *)
(* slots are called on one object.                                         *)
(*                                                                         *)
(* What the model abstracts:                                               *)
(*   - the before and after hooks are configured and may throw; the        *)
(*     beforeEach and afterEach hooks are not configured;                  *)
(*   - integrityCheck and the init completion each read and write in one   *)
(*     step; COMMIT or ROLLBACK and the settling of the run are one step;  *)
(*   - the configuration and the task tree are edited only between runs;   *)
(*   - a statement never fails for a reason of the driver, except on a     *)
(*     missing table and, with two runs on MySQL, on a row lock that is    *)
(*     not granted in time;                                                *)
(*   - ran, skips, lost, hooks, start, before, contended, overlap, filled, *)
(*     renewals, ensured, segment, work, calls, lockOk and unlocks of a    *)
(*     run record what happened in it and are read by the properties only; *)
(*     segment is the ledger as it was when the run's current transaction  *)
(*     began, work the ops the run was given and calls the number of ops   *)
(*     it has called, each the head of the remaining work; conn,           *)
(*     destroys, shutdowns, opened, openTx and handle record the           *)
(*     connection and the transactions the run has opened;                 *)
(*   - the finally of a run (the shutdown hook, then the destroy of the    *)
(*     connection) is a step of the specifications about the connection;   *)
(*     elsewhere a run ends when its promise has settled.                  *)
(***************************************************************************)
EXTENDS Integers, Sequences, FiniteSets, TLC

VARIABLES impl, ddlCommits, absent, ddl, shared, database, cfgVersion, folders,
          tables, lockRows, ledger, effects, releasedAt, rowLock, self, run,
          nRuns, prev

vars == <<impl, ddlCommits, absent, ddl, shared, database, cfgVersion, folders,
          tables, lockRows, ledger, effects, releasedAt, rowLock, self, run,
          nRuns, prev>>

\* what no run ever changes
fixed == <<impl, ddlCommits, absent, ddl, shared>>

(* ------------------------------ bounds -------------------------------- *)

\* runs (init or migrate) started in one behaviour
MaxRuns == 2

\* the highest currentVersion the configuration is edited to
MaxVersion == 2

\* runs started in one behaviour of two concurrent processes
MaxConcurrent == 2

\* rows a version may hold beyond its task files, in a ledger the health
\* check is applied to
MaxExtra == 1

(* --------------------------- the task tree ---------------------------- *)

\* the 'init' pseudo-version; version folders are 1, 2, ... ("1.0", "1.1", ...)
InitVersion == 0

Slots == {1, 2}

\* the version folders that may exist under <migrationPath>/<subfolder>
Versions == 1..MaxVersion

\* utils.readTasks: the ordered task files of a version folder
readTasks(v) ==
    IF v = InitVersion THEN <<"i1", "i2">>
    ELSE IF v = 1 THEN <<"a1">>
    ELSE <<"b1", "b2">>

\* the tasks whose body issues a DDL statement and answers {implicitCommits: true}
\* in the task tree of test/implicit_commits_spec.js
DDLTasks == {"i1", "b1"}

implicitCommits(name) == name \in ddl

\* utils.isGreaterThanVersion: components compared numerically, an absent
\* version (0) counting as all zeros
isGreaterThanVersion(smallerVersion, greaterVersion) == greaterVersion > smallerVersion

(* ------------------------------ helpers ------------------------------- *)

RECURSIVE SortedSeq(_)
SortedSeq(S) ==
    IF S = {} THEN <<>>
    ELSE LET m == CHOOSE x \in S : \A y \in S : x <= y
         IN <<m>> \o SortedSeq(S \ {m})

RECURSIVE Flatten(_)
Flatten(ss) == IF ss = <<>> THEN <<>> ELSE Head(ss) \o Flatten(Tail(ss))

Row(name, version, cv) == [name |-> name, version |-> version, currentVersion |-> cv]

RowsOf(rows, version) == SelectSeq(rows, LAMBDA m : m.version = version)

\* a lookup that never finds the row
FindNothing(rows, name, version) == FALSE

\* _.find(migrations, {name: task, version: version})
Find(rows, name, version) ==
    \E i \in 1..Len(rows) : rows[i].name = name /\ rows[i].version = version

HasName(rows, name) == \E i \in 1..Len(rows) : rows[i].name = name

Count(rows, name, version) ==
    Cardinality({i \in 1..Len(rows) : rows[i].name = name /\ rows[i].version = version})

NoOptions == [force |-> FALSE, version |-> 0, only |-> 0]

NoRun == [op |-> "none", opts |-> NoOptions, n |-> 0]

Idle ==
    [op |-> "none", opts |-> NoOptions, cv |-> 0, serial |-> 0, pc |-> "idle",
     txn |-> "none", pend |-> <<>>, pendEff |-> {}, pendRel |-> FALSE,
     pendTables |-> {},
     ops |-> <<>>, skipped |-> FALSE, err |-> "", result |-> "",
     ran |-> <<>>, skips |-> <<>>, lost |-> <<>>, lockOk |-> FALSE, unlocks |-> 0,
     contended |-> FALSE, overlap |-> FALSE, start |-> <<>>, before |-> NoRun,
     hooks |-> <<>>, filled |-> FALSE, renewals |-> 0, ensured |-> FALSE,
     segment |-> <<>>, work |-> <<>>, calls |-> 0,
     conn |-> "none", destroys |-> 0, shutdowns |-> 0,
     opened |-> 0, openTx |-> {}, handle |-> <<0, 0>>, reads |-> <<0, 0>>]

\* no transaction handle: null
NoHandle == <<0, 0>>

\* the fields of a new KnexMigrator
NoFields == [connection |-> 0, transacting |-> NoHandle]

\* the object the operation of slot r is called on
InstanceOf(r) == IF shared THEN 1 ELSE r

Active(r) == run[r].pc \notin {"idle", "done", "closed"}

Other(r) == CHOOSE s \in Slots : s # r

\* what a query of run r on the migrations table returns
Visible(r) == ledger \o run[r].pend

Op(kind, v, name) == [kind |-> kind, v |-> v, name |-> name]

(* -------------------------- integrityCheck ---------------------------- *)

\* the errno the driver answers to connection('migrations').where(...);
\* 0 when the lookup answers rows
lookupErrno ==
    IF database = "unselected" THEN 1046
    ELSE IF database = "missing" THEN 1049
    ELSE IF database = "denied" THEN 1045
    ELSE IF "migrations" \notin tables THEN (IF ddlCommits THEN 1146 ELSE 1)
    ELSE 0

\* a lookup whose error is thrown on as it came
thrownOn(errno) == "DRIVER_ERROR"

\* the code integrityCheck rejects with when a lookup fails with errno
onMigrationsLookupError(errno) ==
    IF errno = 1046 \/ errno = 1049 THEN "DB_NOT_INITIALISED"
    ELSE IF errno = 1 \/ errno = 1146 THEN "MIGRATION_TABLE_IS_MISSING"
    ELSE "DRIVER_ERROR"

\* utils.readTasks(<migrationPath>/init) throws MigrationPathMissing
\* (err.code 'MIGRATION_PATH'): the directory does not exist
initPathMissing == "init" \in absent

\* utils.readFolders(<migrationPath>/<subfolder>) throws err.code 'READ_FOLDERS'
versionsRootMissing == "versions" \in absent

\* what integrityCheck rejects with, "ok" when it answers: a failed lookup
\* rejects Promise.props; the then-callback reads the init tasks with no catch
integrityCheckRejects(errno) ==
    IF errno # 0 THEN onMigrationsLookupError(errno)
    ELSE IF initPathMissing THEN "MIGRATION_PATH"
    ELSE "ok"

\* the folders integrityCheck examines, in order: 'init', then the version folders
checkedFolders == <<InitVersion>> \o SortedSeq(folders)

\* the currentVersion stored on the first init row ("remember the version the
\* user has initialised the database"); 0 when there is no init row
currentVersionInitTask(rows) ==
    LET value == RowsOf(rows, InitVersion)
    IN IF Len(value) > 0 THEN value[1].currentVersion ELSE 0

\* an integrity check that expects the task files of every version
expectedTasks(rows, version) == Len(readTasks(version))

expectedOf(rows, version) ==
    LET actual == Len(RowsOf(rows, version))
    IN IF version # InitVersion
       THEN IF isGreaterThanVersion(currentVersionInitTask(rows), version)
            THEN Len(readTasks(version))
            ELSE actual
       ELSE Len(readTasks(version))

checkEntry(rows, version) ==
    [version |-> version, expected |-> expectedOf(rows, version),
     actual |-> Len(RowsOf(rows, version))]

isFutureVersion(cv, force, folder) ==
    cv # 0 /\ ~force /\ isGreaterThanVersion(cv, folder)

\* the result of integrityCheck, as the sequence of its entries in key order
integrityCheck(rows, cv, force) ==
    LET toReturn == [i \in 1..Len(checkedFolders) |-> checkEntry(rows, checkedFolders[i])]
    IN SelectSeq(toReturn,
                 LAMBDA e : ~(isFutureVersion(cv, force, e.version) /\ e.actual # e.expected))

\* a migrate that stops at the first version with expected !== actual
firstVersionToMigrate(result) ==
    LET pending == SelectSeq(result, LAMBDA e : e.expected # e.actual)
    IN IF pending = <<>> THEN <<>> ELSE <<pending[1].version>>

\* migrate: the versions of the result with expected !== actual
versionsToMigrate(result) ==
    LET pending == SelectSeq(result, LAMBDA e : e.expected # e.actual)
    IN [i \in 1..Len(pending) |-> pending[i].version]

\* isDatabaseOK: what the then-callback makes of the integrity result; the
\* _.each over the other versions throws at the first one that differs
\* a verdict that knows only of missing migrations
RECURSIVE firstShortfall(_)
firstShortfall(entries) ==
    IF entries = <<>> THEN "ok"
    ELSE IF Head(entries).expected > Head(entries).actual THEN "DB_NEEDS_MIGRATION"
    ELSE firstShortfall(Tail(entries))

RECURSIVE firstDifference(_)
firstDifference(entries) ==
    IF entries = <<>> THEN "ok"
    ELSE LET value == Head(entries)
         IN IF value.expected > value.actual THEN "DB_NEEDS_MIGRATION"
            ELSE IF value.expected < value.actual THEN "MIGRATION_STATE_ERROR"
            ELSE firstDifference(Tail(entries))

\* a verdict that does not look at init
withoutInit(result) ==
    firstDifference(SelectSeq(result, LAMBDA e : e.version # InitVersion))

isDatabaseOKResult(result) ==
    LET init == SelectSeq(result, LAMBDA e : e.version = InitVersion)
    IN IF init # <<>> /\ init[1].expected > init[1].actual
       THEN "DB_NOT_INITIALISED"
       ELSE firstDifference(SelectSeq(result, LAMBDA e : e.version # InitVersion))

(* ----------------------------- migrateTo ------------------------------ *)

\* a migrate that keeps options.only whatever options.version is
onlyKept(opts) == opts.only

\* options.only is used by migrate only together with options.version
onlyFile(opts) == IF opts.only # 0 /\ opts.version = 0 THEN 0 ELSE opts.only

\* tasks = [tasks[only - 1]]: an index past the end yields the task undefined
\* migrateTo: the try/catch around readTasks for 'init' makes a missing init
\* directory zero tasks
tasksOf(version) ==
    IF version = InitVersion /\ initPathMissing THEN <<>> ELSE readTasks(version)

selectTasks(version, only) ==
    LET tasks == tasksOf(version)
    IN IF only # 0
       THEN IF only <= Len(tasks) THEN <<tasks[only]>> ELSE <<"undefined">>
       ELSE tasks

taskOps(version, only) ==
    LET tasks == selectTasks(version, only)
    IN [i \in 1..Len(tasks) |-> Op("task", version, tasks[i])]

\* lib/index.js migrateTo: the tasks, then for 'init' the completion step
migrateTo(version, only) ==
    taskOps(version, only) \o
    (IF version = InitVersion THEN <<Op("fill", InitVersion, "")>> ELSE <<>>)

\* the work of a migrate run once the integrity check has answered
migrateOps(variant, vtm, only) ==
    IF vtm = <<>> THEN <<>>
    ELSE <<Op("before", 0, "")>> \o
         Flatten([i \in 1..Len(vtm) |->
                    IF variant = "lock" THEN migrateTo(vtm[i], only)
                    ELSE taskOps(vtm[i], only)]) \o
         <<Op("after", 0, "")>>

\* the work of an init run
initOps(variant, only) ==
    IF variant = "lock"
    THEN <<Op("before", 0, "")>> \o migrateTo(InitVersion, only) \o <<Op("after", 0, "")>>
    ELSE <<Op("before", 0, ""), Op("mktable", 0, "")>> \o taskOps(InitVersion, only)
         \o <<Op("after", 0, "")>>

\* the rows the init completion inserts: every task file of every version
\* folder whose name has no row yet, recorded under the folder's name
RECURSIVE fillRows(_, _, _)
fillRows(rows, files, cv) ==
    IF files = <<>> THEN <<>>
    ELSE LET f == Head(files)
         IN IF HasName(rows, f.name)
            THEN fillRows(rows, Tail(files), cv)
            ELSE <<Row(f.name, f.v, cv)>>
                 \o fillRows(Append(rows, Row(f.name, f.v, cv)), Tail(files), cv)

filesToMigrateTo ==
    LET vs == IF versionsRootMissing THEN <<>> ELSE SortedSeq(folders)
    IN Flatten([i \in 1..Len(vs) |-> taskOps(vs[i], 0)])

(* --------------------------- the database ----------------------------- *)

\* COMMIT of run r's transaction (explicit, or implied by a DDL statement),
\* together with the rows and effects the committing statement itself writes
Flushed(r, rows, effs) ==
    /\ ledger' = ledger \o run[r].pend \o rows
    /\ effects' = effects \cup run[r].pendEff \cup effs
    /\ tables' = tables \cup run[r].pendTables
    /\ releasedAt' = IF run[r].pendRel THEN run[r].serial ELSE releasedAt
    /\ rowLock' = IF rowLock = r THEN 0 ELSE rowLock

Cleared(rec) ==
    [rec EXCEPT !.pend = <<>>, !.pendEff = {}, !.pendRel = FALSE, !.pendTables = {}]

\* an insert into migrations by run r: pending in an open transaction,
\* committed at once otherwise; rec is the run's record after the step
Insert(r, rec, rows) ==
    IF run[r].txn = "open"
    THEN /\ run' = [run EXCEPT ![r] = [rec EXCEPT !.pend = @ \o rows]]
         /\ UNCHANGED ledger
    ELSE /\ run' = [run EXCEPT ![r] = rec]
         /\ ledger' = ledger \o rows

\* a catch that goes straight to the rollback
FailPcRollback == "rollback"

\* the pc a run continues at when a step has failed: lib/index.js catches,
\* unlocks and throws again, part_000 rolls the transaction back
FailPc == IF impl = "lock" THEN "unlockE" ELSE "rollback"

Failed(rec, code) == [rec EXCEPT !.err = code, !.pc = FailPc]

\* what the next run remembers of the run that ended: a migrate that
\* completed, or an init that completed right after a reset, with its options
\* and the number of task bodies it executed
Summary(rec, result) ==
    IF result = "ok" /\ (rec.op = "migrate" \/ (rec.op = "init" /\ rec.before.op = "reset"))
    THEN [op |-> rec.op, opts |-> rec.opts, n |-> Len(rec.ran)]
    ELSE NoRun

\* commit() or rollback() on the transaction handle: the handle is closed
Closed(rec) ==
    [Cleared(rec) EXCEPT !.txn = "none", !.openTx = @ \ {rec.handle[2]}]

Finished(rec, result) ==
    [Closed(rec) EXCEPT !.pc = "done", !.result = result]

\* the handle part_000 reads from the object is the one the run opened last;
\* lib/index.js passes the handle down the chain as a parameter
HandleIntact(r) ==
    impl = "lock" \/ self[InstanceOf(r)].transacting = run[r].handle

InCritical(s) == Active(s) /\ run[s].lockOk /\ run[s].unlocks = 0

(* ------------------------------ options ------------------------------- *)

\* {version, only, force} of migrate: --v 1.0 with --only, or neither
MigrateOptions ==
    {[force |-> f, version |-> vo[1], only |-> vo[2]] :
        f \in BOOLEAN, vo \in {<<0, 0>>, <<1, 1>>}}
    \cup {[force |-> FALSE, version |-> 1, only |-> 2]}

\* {only} of init
InitOptions ==
    [force : {FALSE}, version : {0}, only : {0, 1}]

(* ------------------------------ actions ------------------------------- *)

\* a database server without the database's tables, the migration path of
\* the test suite with its first version folder, no run yet
NewDatabase ==
    /\ impl \in {"lock", "renew"}
    /\ ddlCommits \in BOOLEAN
    /\ absent = {}
    /\ database = "ok"
    /\ cfgVersion = 1
    /\ folders = {1}
    /\ tables = {}
    /\ lockRows = 0
    /\ ledger = <<>>
    /\ effects = {}
    /\ releasedAt = 0
    /\ rowLock = 0
    /\ self = [i \in Slots |-> NoFields]
    /\ run = [r \in Slots |-> Idle]
    /\ nRuns = 0
    /\ prev = NoRun

Init == NewDatabase /\ ddl = DDLTasks /\ shared = FALSE

\* the operator edits MigratorConfig.js: currentVersion is raised
BumpVersion ==
    /\ \A r \in Slots : ~Active(r)
    /\ cfgVersion < MaxVersion
    /\ cfgVersion' = cfgVersion + 1
    /\ prev' = NoRun
    /\ UNCHANGED <<fixed, self, database, folders, tables, lockRows, ledger, effects, releasedAt,
                   rowLock, run, nRuns>>

\* the operator adds the next version folder to the migration path
AddFolder ==
    /\ \A r \in Slots : ~Active(r)
    /\ ~versionsRootMissing
    /\ \E v \in Versions \ folders :
         /\ \A w \in Versions : w < v => w \in folders
         /\ folders' = folders \cup {v}
    /\ prev' = NoRun
    /\ UNCHANGED <<fixed, self, database, cfgVersion, tables, lockRows, ledger, effects, releasedAt,
                   rowLock, run, nRuns>>

\* new KnexMigrator() and the call of init(options), migrate(options) or
\* isDatabaseOK(): this.connection = database.connect(this.dbConfig)
Start(r, op, opts, max) ==
    /\ ~Active(r)
    /\ nRuns < max
    /\ r # 1 => Active(1)
    /\ LET o == Other(r)
           rec == [Idle EXCEPT !.op = op, !.opts = opts, !.cv = cfgVersion,
                               !.serial = nRuns + 1, !.start = ledger,
                               !.before = prev, !.overlap = Active(o),
                               !.conn = "open",
                               !.reads = IF shared /\ impl = "renew"
                                         THEN self[InstanceOf(r)].transacting
                                         ELSE NoHandle,
                               !.ops = IF op = "init" /\ impl = "renew"
                                       THEN initOps(impl, opts.only) ELSE <<>>,
                               !.work = IF op = "init" /\ impl = "renew"
                                        THEN initOps(impl, opts.only) ELSE <<>>,
                               !.pc = IF op = "health" THEN "health"
                                      ELSE IF op = "init"
                                      THEN IF impl = "lock" THEN "mktable" ELSE "begin"
                                      ELSE IF impl = "lock" THEN "begin" ELSE "check"]
       IN run' = [run EXCEPT ![r] = rec,
                             ![o] = [@ EXCEPT !.overlap = @ \/ Active(o)]]
    /\ nRuns' = nRuns + 1
    /\ database' = IF op = "init" /\ database = "missing" THEN "ok" ELSE database
    /\ self' = [self EXCEPT ![InstanceOf(r)] =
                   IF shared THEN [@ EXCEPT !.connection = r]
                   ELSE [NoFields EXCEPT !.connection = r]]
    /\ UNCHANGED <<fixed, cfgVersion, folders, tables, lockRows, ledger, effects,
                   releasedAt, rowLock, prev>>

\* one process: the runs follow one another
StartInit == \E opts \in InitOptions : Start(1, "init", opts, MaxRuns)

StartMigrate == \E opts \in MigrateOptions : Start(1, "migrate", opts, MaxRuns)

\* two processes against the same database, with the default options
StartConcurrent ==
    \E r \in Slots, op \in {"init", "migrate"} : Start(r, op, NoOptions, MaxConcurrent)

\* lib/index.js init: createMigrationsTable, on the connection
createMigrationsTable(r) ==
    /\ run[r].pc = "mktable"
    /\ tables' = tables \cup {"migrations"}
    /\ run' = [run EXCEPT ![r].pc = "mklock"]
    /\ UNCHANGED <<fixed, self, database, cfgVersion, folders, lockRows, ledger, effects, releasedAt,
                   rowLock, nRuns, prev>>

\* the errno of CREATE TABLE migrations_lock when the table exists by now:
\* ER_TABLE_EXISTS_ERROR on MySQL, SQLITE_ERROR on SQLite
createLockTableErrno == IF ddlCommits THEN 1050 ELSE 1

\* the catch of ensureLockTable: errno 5 (SQLITE_BUSY) becomes
\* MigrationsAreLocked, any other error is thrown on as it is
onLockTableError(errno) ==
    IF errno = 5 THEN "MIGRATIONS_LOCKED" ELSE "DRIVER_ERROR"

\* lib/index.js init: ensureLockTable, on the connection: schema.hasTable
ensureLockTable(r) ==
    /\ run[r].pc = "mklock"
    /\ IF "migrations_lock" \in tables
       THEN run' = [run EXCEPT ![r].pc = "begin", ![r].ensured = TRUE]
       ELSE run' = [run EXCEPT ![r].pc = "mklockCreate"]
    /\ UNCHANGED <<fixed, self, database, cfgVersion, folders, tables, lockRows, ledger, effects,
                   releasedAt, rowLock, nRuns, prev>>

\* ensureLockTable: schema.createTable; it fails when another run has
\* created the table since hasTable answered, and init rejects
createLockTable(r) ==
    /\ run[r].pc = "mklockCreate"
    /\ IF "migrations_lock" \in tables
       THEN /\ run' = [run EXCEPT ![r] =
                          Finished([run[r] EXCEPT !.err = onLockTableError(createLockTableErrno)],
                                   onLockTableError(createLockTableErrno))]
            /\ prev' = Summary(run[r], onLockTableError(createLockTableErrno))
            /\ UNCHANGED tables
       ELSE /\ tables' = tables \cup {"migrations_lock"}
            /\ run' = [run EXCEPT ![r].pc = "mklockInsert"]
            /\ UNCHANGED prev
    /\ UNCHANGED <<fixed, self, database, cfgVersion, folders, lockRows, ledger, effects,
                   releasedAt, rowLock, nRuns>>

\* ensureLockTable: the insert of the km01 row by the run that created the table
insertLockRow(r) ==
    /\ run[r].pc = "mklockInsert"
    /\ lockRows' = lockRows + 1
    /\ run' = [run EXCEPT ![r].pc = "begin", ![r].ensured = TRUE]
    /\ UNCHANGED <<fixed, self, database, cfgVersion, folders, tables, ledger, effects,
                   releasedAt, rowLock, nRuns, prev>>

\* a createTransaction that does not keep the handle on the object
notKept(fields, txn) == fields

\* part_000 createTransaction: self.transacting = txn
kept(fields, txn) == [fields EXCEPT !.transacting = txn]

\* createTransaction: this.connection.transaction(...), BEGIN on the
\* connection the object holds; a TypeError when it holds none
createTransaction(r) ==
    /\ run[r].pc = "begin"
    /\ LET i == InstanceOf(r)
           txn == <<r, run[r].opened + 1>>
       IN IF self[i].connection = 0
          THEN /\ run' = [run EXCEPT ![r] =
                             Finished([run[r] EXCEPT !.err = "TYPE_ERROR"], "TYPE_ERROR")]
               /\ prev' = Summary(run[r], "TYPE_ERROR")
               /\ UNCHANGED self
          ELSE /\ run' = [run EXCEPT ![r].txn = "open", ![r].segment = ledger,
                                     ![r].opened = @ + 1,
                                     ![r].openTx = @ \cup {txn[2]},
                                     ![r].handle = txn,
                                     ![r].pc = IF impl = "lock" THEN "lock" ELSE "op"]
               /\ self' = IF impl = "renew" THEN [self EXCEPT ![i] = kept(@, txn)]
                          ELSE self
               /\ UNCHANGED prev
    /\ UNCHANGED <<fixed, database, cfgVersion, folders, tables, lockRows, ledger, effects,
                   releasedAt, rowLock, nRuns>>

\* the pc and the work after lock() has answered
Locked(rec) ==
    IF rec.op = "init"
    THEN [rec EXCEPT !.lockOk = TRUE, !.pc = "op", !.ops = initOps("lock", rec.opts.only),
                     !.work = initOps("lock", rec.opts.only)]
    ELSE [rec EXCEPT !.lockOk = TRUE, !.pc = "check"]

\* lock(): SELECT ... FOR UPDATE of the km01 row; the answer is only
\* printed, so a table without row answers too and no row is locked
lock(r) ==
    /\ run[r].pc = "lock"
    /\ LET rec == [run[r] EXCEPT !.contended = InCritical(Other(r))]
       IN IF "migrations_lock" \notin tables
          THEN /\ run' = [run EXCEPT ![r] = Failed(rec, "DRIVER_ERROR")]
               /\ UNCHANGED rowLock
          ELSE IF lockRows = 0
          THEN /\ run' = [run EXCEPT ![r] = Locked(rec)]
               /\ UNCHANGED rowLock
          ELSE IF rowLock \in {0, r}
          THEN /\ run' = [run EXCEPT ![r] = Locked(rec)]
               /\ rowLock' = r
          ELSE /\ run' = [run EXCEPT ![r] = [rec EXCEPT !.pc = "lockwait"]]
               /\ UNCHANGED rowLock
    /\ UNCHANGED <<fixed, self, database, cfgVersion, folders, tables, lockRows, ledger, effects,
                   releasedAt, nRuns, prev>>

\* the row lock of the other transaction has gone: the SELECT answers
lockGranted(r) ==
    /\ run[r].pc = "lockwait"
    /\ rowLock = 0
    /\ rowLock' = r
    /\ run' = [run EXCEPT ![r] = Locked(run[r])]
    /\ UNCHANGED <<fixed, self, database, cfgVersion, folders, tables, lockRows, ledger, effects,
                   releasedAt, nRuns, prev>>

\* the row lock is not granted in time: MySQL ends the wait of the SELECT
\* with errno 1205 (lock wait timeout), the transaction stays open, lock()
\* rejects with the driver's error and the catch of the chain takes over
lockTimeout(r) ==
    /\ run[r].pc = "lockwait"
    /\ ddlCommits
    /\ rowLock \notin {0, r}
    /\ run' = [run EXCEPT ![r] = Failed(run[r], "DRIVER_ERROR")]
    /\ UNCHANGED <<fixed, self, database, cfgVersion, folders, tables, lockRows, ledger, effects,
                   releasedAt, rowLock, nRuns, prev>>

\* migrate: integrityCheck, versionsToMigrate and the work that follows
migrateCheck(r) ==
    /\ run[r].pc = "check"
    /\ LET rec == run[r]
           result == integrityCheck(Visible(r), rec.cv, rec.opts.force)
           work == migrateOps(impl, versionsToMigrate(result), onlyFile(rec.opts))
           code == integrityCheckRejects(lookupErrno)
       IN IF code # "ok"
          THEN IF impl = "lock"
               THEN /\ run' = [run EXCEPT ![r] = Failed(rec, code)]
                    /\ UNCHANGED prev
               ELSE /\ run' = [run EXCEPT ![r] = Finished(rec, code)]
                    /\ prev' = Summary(rec, code)
          ELSE IF impl = "lock"
          THEN /\ run' = [run EXCEPT ![r] = [rec EXCEPT !.pc = "op", !.ops = work,
                                                   !.work = work]]
               /\ UNCHANGED prev
          ELSE IF work = <<>>
          THEN /\ run' = [run EXCEPT ![r] = Finished(rec, "ok")]
               /\ prev' = Summary(rec, "ok")
          ELSE /\ run' = [run EXCEPT ![r] = [rec EXCEPT !.pc = "begin", !.ops = work,
                                                   !.work = work]]
               /\ UNCHANGED prev
    /\ UNCHANGED <<fixed, self, database, cfgVersion, folders, tables, lockRows, ledger, effects,
                   releasedAt, rowLock, nRuns>>

\* an iteration that reads the shifted array: the op after the one that is
\* done is passed over
shiftedTwice(ops) == IF Len(ops) >= 2 THEN Tail(Tail(ops)) ELSE <<>>

\* ops.shift(): the op that is done leaves the remaining work (in
\* lib/index.js: the chain goes on with its next then)
shifted(ops) == Tail(ops)

\* the op at the head of the remaining work is called
Invoked(rec) == [rec EXCEPT !.calls = @ + 1]

HeadIs(r, kinds) ==
    /\ run[r].pc = "op"
    /\ HandleIntact(r)
    /\ run[r].ops # <<>>
    /\ Head(run[r].ops).kind \in kinds

\* hooks.before / hooks.after: the hook module's function, which may throw
runHook(r) ==
    /\ HeadIs(r, {"before", "after"})
    /\ \/ run' = [run EXCEPT ![r] = [Invoked(run[r]) EXCEPT
                                         !.ops = shifted(@),
                                         !.hooks = Append(@, Head(run[r].ops).kind)]]
       \/ run' = [run EXCEPT ![r] = Failed(Invoked(run[r]), "HOOK_ERROR")]
    /\ UNCHANGED <<fixed, self, database, cfgVersion, folders, tables, lockRows, ledger, effects,
                   releasedAt, rowLock, nRuns, prev>>

\* part_000 init: createMigrationsTable as an op of the transaction; the
\* CREATE TABLE is a DDL statement
createMigrationsTableOp(r) ==
    /\ HeadIs(r, {"mktable"})
    /\ LET rec == [Invoked(run[r]) EXCEPT !.ops = shifted(@)]
       IN IF "migrations" \in tables \cup run[r].pendTables
          THEN /\ run' = [run EXCEPT ![r] = rec]
               /\ UNCHANGED <<tables, ledger, effects, releasedAt, rowLock>>
          ELSE IF rec.txn = "open" /\ ~ddlCommits
          THEN /\ run' = [run EXCEPT ![r] = [rec EXCEPT !.pendTables = @ \cup {"migrations"}]]
               /\ UNCHANGED <<tables, ledger, effects, releasedAt, rowLock>>
          ELSE /\ ledger' = ledger \o run[r].pend
               /\ effects' = effects \cup run[r].pendEff
               /\ tables' = tables \cup {"migrations"}
               /\ rowLock' = IF rowLock = r THEN 0 ELSE rowLock
               /\ run' = [run EXCEPT ![r] = [Cleared(rec) EXCEPT !.txn = "auto"]]
               /\ UNCHANGED releasedAt
    /\ UNCHANGED <<fixed, self, database, cfgVersion, folders, lockRows, nRuns, prev>>

\* a MigrationExistsError that is thrown on to the caller
skipTaskThrows(rec, h) == Failed(rec, "MIGRATION_EXISTS")

\* the catch of MigrationExistsError: the task is noted as skipped and the
\* chain goes on with the next task
skipTask(rec, h) ==
    [rec EXCEPT !.skipped = TRUE, !.skips = Append(@, <<h.name, h.v>>),
                !.ops = shifted(@)]

\* beforeEachTask: MigrationExistsError when the task's row exists
beforeEachTask(r) ==
    /\ HeadIs(r, {"task"})
    /\ LET h == Head(run[r].ops)
       IN IF h.name = "undefined"
          THEN run' = [run EXCEPT ![r] = Failed(Invoked(run[r]), "TYPE_ERROR")]
          ELSE IF Find(Visible(r), h.name, h.v)
          THEN run' = [run EXCEPT ![r] = skipTask(Invoked(run[r]), h)]
          ELSE run' = [run EXCEPT ![r] = [Invoked(run[r]) EXCEPT !.pc = "exec"]]
    /\ UNCHANGED <<fixed, self, database, cfgVersion, folders, tables, lockRows, ledger, effects,
                   releasedAt, rowLock, nRuns, prev>>

\* the state of run r after a statement that writes the effect t: pending in
\* an open transaction, committed at once otherwise
Wrote(r, rec, t) ==
    IF rec.txn = "open"
    THEN /\ run' = [run EXCEPT ![r] = [rec EXCEPT !.pendEff = @ \cup {t}]]
         /\ UNCHANGED effects
    ELSE /\ run' = [run EXCEPT ![r] = rec]
         /\ effects' = effects \cup {t}

\* what a task body may throw: the driver's ER_TOO_LONG_KEY or anything else
TaskErrors == {"ER_TOO_LONG_KEY", "ERROR"}

\* a catch that lets the error of the body through as it is
notWrapped(variant, code) == code

\* the catch around a task: errors.MigrationScript. "MIGRATION_SCRIPT" stands
\* for the error whose help names the task, "MIGRATION_SCRIPT_FIELD" for the
\* one that names the table and the field of the key instead. part_000
\* catches twice, so there the error that names the field is wrapped again
\* into one that names the task.
errorHandling(variant, code) ==
    IF code = "ER_TOO_LONG_KEY" /\ variant = "lock"
    THEN "MIGRATION_SCRIPT_FIELD"
    ELSE "MIGRATION_SCRIPT"

\* a catch that goes on to afterEachTask with the error it caught
recordedAnyway(rec, code) ==
    [rec EXCEPT !.err = errorHandling(impl, code), !.pc = "rec"]

\* the body has thrown: the catch around the task throws the wrapped error,
\* afterEachTask is not called
thrown(rec, code) == Failed(rec, errorHandling(impl, code))

\* task.execute: the body succeeds or throws; the body of an implicitCommits
\* task issues a DDL statement before it answers or throws
execute(r) ==
    /\ run[r].pc = "exec"
    /\ HandleIntact(r)
    /\ LET h == Head(run[r].ops)
           t == <<h.name, h.v>>
           rec == [run[r] EXCEPT !.ran = Append(@, t)]
       IN \/ /\ ~(implicitCommits(h.name) /\ ddlCommits /\ rec.txn = "open")
             /\ Wrote(r, [rec EXCEPT !.pc = "rec"], t)
             /\ UNCHANGED <<tables, ledger, releasedAt, rowLock>>
          \/ /\ implicitCommits(h.name) /\ ddlCommits /\ rec.txn = "open"
             /\ \E code \in {"OK"} \cup TaskErrors :
                  LET next == IF code = "OK" THEN [rec EXCEPT !.pc = "rec"]
                              ELSE thrown(rec, code)
                  IN /\ Flushed(r, <<>>, {t})
                     /\ run' = [run EXCEPT ![r] = [Cleared(next) EXCEPT !.txn = "auto"]]
          \/ /\ \E code \in TaskErrors :
                  run' = [run EXCEPT ![r] = thrown(rec, code)]
             /\ UNCHANGED <<tables, ledger, effects, releasedAt, rowLock>>
    /\ UNCHANGED <<fixed, self, database, cfgVersion, folders, lockRows, nRuns, prev>>

\* a row that afterEachTask fails to write
insertedNothing(name, version, cv) == <<>>

\* the row afterEachTask inserts
insertedRow(name, version, cv) == <<Row(name, version, cv)>>

\* afterEachTask: lib/index.js inserts the row; part_000 looks the row up
\* again and skips when it exists. Then the op is done (ops.shift()), and
\* part_000 renews the transaction after an implicitCommits answer
afterEachTask(r) ==
    /\ run[r].pc = "rec"
    /\ HandleIntact(r)
    /\ LET h == Head(run[r].ops)
           rec == [run[r] EXCEPT !.ops = shifted(@),
                                 !.pc = IF impl = "renew" /\ implicitCommits(h.name)
                                        THEN "renew" ELSE "op"]
       IN IF impl = "renew" /\ Find(Visible(r), h.name, h.v)
          THEN /\ run' = [run EXCEPT ![r] = [run[r] EXCEPT !.skipped = TRUE,
                                                !.lost = Append(@, <<h.name, h.v>>),
                                                !.ops = shifted(@), !.pc = "op"]]
               /\ UNCHANGED ledger
          ELSE Insert(r, rec, insertedRow(h.name, h.v, run[r].cv))
    /\ UNCHANGED <<fixed, self, database, cfgVersion, folders, tables, lockRows, effects, releasedAt,
                   rowLock, nRuns, prev>>

\* a completion that does not ask whether a task was skipped
completesAlways(rec) == TRUE

\* the completion of the ledger is left out when skippedTasks.length
completes(rec) == ~rec.skipped

\* lib/index.js migrateTo('init'): the completion, unless a task was skipped
completeInit(r) ==
    /\ HeadIs(r, {"fill"})
    /\ LET rec == [Invoked(run[r]) EXCEPT !.ops = shifted(@), !.skipped = FALSE,
                                 !.filled = @ \/ (completes(run[r]) /\ ~versionsRootMissing)]
       IN Insert(r, rec, IF completes(run[r])
                         THEN fillRows(Visible(r), filesToMigrateTo, run[r].cv)
                         ELSE <<>>)
    /\ UNCHANGED <<fixed, self, database, cfgVersion, folders, tables, lockRows, effects, releasedAt,
                   rowLock, nRuns, prev>>

\* a renewal that rolls the transaction back
renewedRollback(r) ==
    /\ rowLock' = IF rowLock = r THEN 0 ELSE rowLock
    /\ UNCHANGED <<ledger, effects, tables, releasedAt>>

\* what transactional does with the transaction on 'renew': commit
renewed(r) == Flushed(r, <<>>, {})

\* part_000 transactional: 'renew' is caught, the transaction is committed
\* and, while ops are left, transactional(ops) is called again, with a new
\* skippedTasks, and begins the next transaction
renew(r) ==
    /\ run[r].pc = "renew"
    /\ HandleIntact(r)
    /\ renewed(r)
    /\ IF run[r].ops # <<>>
       THEN /\ run' = [run EXCEPT ![r] = [Closed(run[r]) EXCEPT
                                              !.skipped = FALSE, !.pc = "begin",
                                              !.renewals = @ + 1]]
            /\ UNCHANGED prev
       ELSE /\ run' = [run EXCEPT ![r] = Finished(run[r], "ok")]
            /\ prev' = Summary(run[r], "ok")
    /\ UNCHANGED <<fixed, self, database, cfgVersion, folders, lockRows, nRuns>>

\* the catch of READ_FOLDERS in the then of transactional returns
\* Promise.resolve() and nothing calls transacting.commit() or rollback()
leftOpenOnReadFolders(fill) == fill /\ versionsRootMissing

\* part_000 transactional: every op is done; an init run completes the
\* ledger unless a task was skipped, then the transaction is committed. When
\* the versions root is missing the transaction stays open and the promise
\* of connection.transaction never settles: the run is left at "pending"
transactionalEnd(r) ==
    /\ impl = "renew"
    /\ run[r].pc = "op"
    /\ HandleIntact(r)
    /\ run[r].ops = <<>>
    /\ LET fill == run[r].op = "init" /\ completes(run[r])
           rows == IF fill THEN fillRows(Visible(r), filesToMigrateTo, run[r].cv)
                   ELSE <<>>
       IN IF leftOpenOnReadFolders(fill)
          THEN /\ run' = [run EXCEPT ![r].pc = "pending"]
               /\ UNCHANGED <<tables, ledger, effects, releasedAt, rowLock, prev>>
          ELSE /\ Flushed(r, rows, {})
               /\ run' = [run EXCEPT ![r] = [Finished(run[r], "ok") EXCEPT !.filled = fill]]
               /\ prev' = Summary(run[r], "ok")
    /\ UNCHANGED <<fixed, self, database, cfgVersion, folders, lockRows, nRuns>>

\* unlock(): UPDATE migrations_lock SET released_at, after the last then of
\* the chain or in its catch
unlock(r) ==
    /\ impl = "lock"
    /\ \/ run[r].pc = "op" /\ run[r].ops = <<>>
       \/ run[r].pc = "unlockE"
    /\ LET rec == [run[r] EXCEPT !.unlocks = @ + 1,
                                 !.pc = IF run[r].pc = "op" THEN "commit" ELSE "rollback"]
       IN IF "migrations_lock" \notin tables \/ lockRows = 0
          THEN /\ run' = [run EXCEPT ![r] = rec]
               /\ UNCHANGED <<releasedAt, rowLock>>
          ELSE /\ rowLock \in {0, r}
               /\ IF rec.txn = "open"
                  THEN /\ run' = [run EXCEPT ![r] = [rec EXCEPT !.pendRel = TRUE]]
                       /\ rowLock' = r
                       /\ UNCHANGED releasedAt
                  ELSE /\ run' = [run EXCEPT ![r] = rec]
                       /\ releasedAt' = rec.serial
                       /\ UNCHANGED rowLock
    /\ UNCHANGED <<fixed, self, database, cfgVersion, folders, tables, lockRows, ledger, effects,
                   nRuns, prev>>

\* the callback's promise resolved: COMMIT, and the run resolves
commit(r) ==
    /\ run[r].pc = "commit"
    /\ Flushed(r, <<>>, {})
    /\ run' = [run EXCEPT ![r] = Finished(run[r], "ok")]
    /\ prev' = Summary(run[r], "ok")
    /\ UNCHANGED <<fixed, self, database, cfgVersion, folders, lockRows, nRuns>>

\* a rollback that commits what is pending
committedInstead(r) == Flushed(r, <<>>, {})

\* ROLLBACK: what is pending is dropped, the row lock is given up
rolledBack(r) ==
    /\ rowLock' = IF rowLock = r THEN 0 ELSE rowLock
    /\ UNCHANGED <<ledger, effects, tables, releasedAt>>

\* the callback's promise rejected (lib/index.js) or transacting.rollback(err)
\* (part_000): ROLLBACK, and the run rejects with the error
rollback(r) ==
    /\ run[r].pc = "rollback"
    /\ HandleIntact(r)
    /\ rolledBack(r)
    /\ run' = [run EXCEPT ![r] = Finished(run[r], run[r].err)]
    /\ prev' = Summary(run[r], run[r].err)
    /\ UNCHANGED <<fixed, self, database, cfgVersion, folders, lockRows, nRuns>>

\* the finally of init and migrate, its first op: hooks.shutdown, which may
\* throw. Promise.each stops at the op that rejects, so destroyConnection is
\* not called then, and the run rejects with the error of the hook
shutdownHook(r) ==
    /\ run[r].pc = "done"
    /\ run[r].op \in {"init", "migrate"}
    /\ \/ run' = [run EXCEPT ![r].shutdowns = @ + 1, ![r].pc = "destroy"]
       \/ run' = [run EXCEPT ![r].shutdowns = @ + 1, ![r].pc = "closed",
                             ![r].result = "SHUTDOWN_ERROR"]
    /\ UNCHANGED <<fixed, self, database, cfgVersion, folders, tables, lockRows, ledger,
                   effects, releasedAt, rowLock, nRuns, prev>>

\* the finally, its last op: self.connection.destroy(), on the connection
\* the object holds by now; part_000 then sets connection and transacting
\* to null. isDatabaseOK returns when the object holds no connection, init
\* and migrate call destroy on null
destroyConnection(r) ==
    /\ \/ run[r].pc = "destroy"
       \/ run[r].pc = "done" /\ run[r].op = "health"
    /\ LET i == InstanceOf(r)
           c == self[i].connection
       IN IF c = 0
          THEN /\ run' = [run EXCEPT ![r].pc = "closed",
                                     ![r].result = IF run[r].op = "health" THEN @
                                                   ELSE "TYPE_ERROR"]
               /\ UNCHANGED self
          ELSE /\ run' = [run EXCEPT ![c].conn = "destroyed", ![c].destroys = @ + 1,
                                     ![r].pc = "closed"]
               /\ self' = IF impl = "renew" THEN [self EXCEPT ![i] = NoFields] ELSE self
    /\ UNCHANGED <<fixed, database, cfgVersion, folders, tables, lockRows, ledger,
                   effects, releasedAt, rowLock, nRuns, prev>>

Step(r) ==
    \/ createMigrationsTable(r)
    \/ ensureLockTable(r)
    \/ createLockTable(r)
    \/ insertLockRow(r)
    \/ createTransaction(r)
    \/ lock(r)
    \/ migrateCheck(r)
    \/ runHook(r)
    \/ createMigrationsTableOp(r)
    \/ beforeEachTask(r)
    \/ execute(r)
    \/ afterEachTask(r)
    \/ completeInit(r)
    \/ renew(r)
    \/ transactionalEnd(r)
    \/ unlock(r)
    \/ commit(r)
    \/ rollback(r)

\* runs one after the other, between edits of the configuration and the tree
Next ==
    \/ BumpVersion
    \/ AddFolder
    \/ StartInit
    \/ StartMigrate
    \/ Step(1)

Spec == Init /\ [][Next]_vars

\* two runs at the same time against one database
NextConcurrent ==
    \/ StartConcurrent
    \/ \E r \in Slots : Step(r) \/ lockGranted(r) \/ lockTimeout(r)

(* ------------------------- the health check --------------------------- *)

\* the first c rows of a version: one per task file in order, then again
\* from the first file for the rows beyond the files
rowsOfCount(version, c, cv) ==
    LET tasks == readTasks(version)
    IN [i \in 1..c |-> Row(tasks[((i - 1) % Len(tasks)) + 1], version, cv)]

\* a database as the health check may meet it: not initialised at all, or a
\* ledger of some rows per version, all recorded at one currentVersion
InitOK ==
    /\ impl \in {"lock", "renew"}
    /\ ddlCommits \in BOOLEAN
    /\ absent = {}
    /\ ddl = DDLTasks
    /\ shared = FALSE
    /\ cfgVersion \in Versions
    /\ folders \in {1..v : v \in Versions}
    /\ tables \in {{}, {"migrations", "migrations_lock"}}
    /\ database \in IF tables = {} /\ ddlCommits
                    THEN {"ok", "unselected", "missing", "denied"}
                    ELSE {"ok"}
    /\ lockRows = IF tables = {} THEN 0 ELSE 1
    /\ \E cv \in Versions :
         \E c \in [{InitVersion} \cup Versions -> 0..(2 + MaxExtra)] :
            /\ \A v \in DOMAIN c : c[v] <= Len(readTasks(v)) + MaxExtra
            /\ tables = {} => \A v \in DOMAIN c : c[v] = 0
            /\ ledger = Flatten([i \in 1..(MaxVersion + 1) |->
                                    rowsOfCount(i - 1, c[i - 1], cv)])
    /\ effects = {}
    /\ releasedAt = 0
    /\ rowLock = 0
    /\ self = [i \in Slots |-> NoFields]
    /\ run = [r \in Slots |-> Idle]
    /\ nRuns = 0
    /\ prev = NoRun

StartOK == Start(1, "health", NoOptions, MaxRuns)

\* the lookups of integrityCheck cannot answer: they were issued on a
\* transaction handle that is complete, or on a connection that another
\* finally of the object has destroyed by now
lookupsBroken(r) ==
    LET h == run[r].reads
    IN IF h = NoHandle THEN run[r].conn = "destroyed"
       ELSE h[2] \notin run[h[1]].openTx

\* isDatabaseOK: integrityCheck, on this.transacting || this.connection as
\* they were when it was called (a connection of its own when the object is
\* not shared), then the verdict
isDatabaseOK(r) ==
    /\ run[r].pc = "health"
    /\ LET h == run[r].reads
           rows == IF h = NoHandle THEN ledger ELSE Visible(h[1])
           code == IF integrityCheckRejects(lookupErrno) # "ok"
                   THEN integrityCheckRejects(lookupErrno)
                   ELSE isDatabaseOKResult(integrityCheck(rows, run[r].cv, FALSE))
       IN \E out \in IF lookupsBroken(r) THEN {code, "DRIVER_ERROR"} ELSE {code} :
              run' = [run EXCEPT ![r] = Finished(run[r], out)]
    /\ UNCHANGED <<fixed, self, database, cfgVersion, folders, tables, lockRows, ledger, effects,
                   releasedAt, rowLock, nRuns, prev>>

NextOK == StartOK \/ isDatabaseOK(1)

SpecOK == InitOK /\ [][NextOK]_vars

(* ------------------------ one migrate request ------------------------- *)

\* every combination of {force, version, only} of one call of migrate
RequestOptions ==
    [force : BOOLEAN, version : {0} \cup Versions, only : {0, 1, 2}]

\* an initialised database: the tables exist, each version folder on disk
\* holds the rows of some first tasks, recorded at a baseline that is not
\* above the configured version
InitRequest ==
    /\ impl \in {"lock", "renew"}
    /\ ddlCommits \in BOOLEAN
    /\ absent = {}
    /\ ddl = DDLTasks
    /\ shared = FALSE
    /\ database = "ok"
    /\ cfgVersion \in Versions
    /\ folders \in {1..v : v \in Versions}
    /\ tables = {"migrations", "migrations_lock"}
    /\ lockRows = 1
    /\ \E cv \in 1..cfgVersion :
         \E c \in [{InitVersion} \cup Versions -> 0..2] :
            /\ \A v \in DOMAIN c : c[v] <= Len(readTasks(v))
            /\ \A v \in Versions \ folders : c[v] = 0
            /\ ledger = Flatten([i \in 1..(MaxVersion + 1) |->
                                    rowsOfCount(i - 1, c[i - 1], cv)])
    /\ effects = {}
    /\ releasedAt = 0
    /\ rowLock = 0
    /\ self = [i \in Slots |-> NoFields]
    /\ run = [r \in Slots |-> Idle]
    /\ nRuns = 0
    /\ prev = NoRun

StartRequest ==
    /\ nRuns = 0
    /\ \E opts \in RequestOptions : Start(1, "migrate", opts, MaxRuns)

\* the steps of a migrate run
StepMigrate(r) ==
    \/ createTransaction(r)
    \/ lock(r)
    \/ migrateCheck(r)
    \/ runHook(r)
    \/ beforeEachTask(r)
    \/ execute(r)
    \/ afterEachTask(r)
    \/ completeInit(r)
    \/ renew(r)
    \/ transactionalEnd(r)
    \/ unlock(r)
    \/ commit(r)
    \/ rollback(r)

NextRequest == StartRequest \/ StepMigrate(1)

SpecRequest == InitRequest /\ [][NextRequest]_vars

(* --------------------------- the round trip --------------------------- *)

\* reset: database.drop, the database is gone with all its tables
reset ==
    /\ \A r \in Slots : ~Active(r)
    /\ prev.op # "reset"
    /\ nRuns < MaxRuns
    /\ tables' = {}
    /\ lockRows' = 0
    /\ ledger' = <<>>
    /\ effects' = {}
    /\ releasedAt' = 0
    /\ prev' = [op |-> "reset", opts |-> NoOptions, n |-> 0]
    /\ database' = (IF ddlCommits THEN "missing" ELSE "ok")
    /\ UNCHANGED <<fixed, self, cfgVersion, folders, rowLock, run, nRuns>>

\* init() with no options, called once reset() has resolved
StartInitAfterReset ==
    /\ prev.op = "reset"
    /\ Start(1, "init", NoOptions, MaxRuns)

\* isDatabaseOK(), called once that init() has resolved
StartOKAfterInit ==
    /\ prev.op = "init"
    /\ Start(1, "health", NoOptions, MaxRuns)

\* the steps of an init run
StepInit(r) ==
    \/ createMigrationsTable(r)
    \/ ensureLockTable(r)
    \/ createLockTable(r)
    \/ insertLockRow(r)
    \/ createTransaction(r)
    \/ lock(r)
    \/ runHook(r)
    \/ createMigrationsTableOp(r)
    \/ beforeEachTask(r)
    \/ execute(r)
    \/ afterEachTask(r)
    \/ completeInit(r)
    \/ renew(r)
    \/ transactionalEnd(r)
    \/ unlock(r)
    \/ commit(r)
    \/ rollback(r)

NextRoundTrip ==
    \/ reset
    \/ StartInitAfterReset
    \/ StartOKAfterInit
    \/ StepInit(1)
    \/ isDatabaseOK(1)

\* any database a reset can be called on
InitRoundTrip == InitOK /\ database \in {"ok", "missing"}

SpecRoundTrip == InitRoundTrip /\ [][NextRoundTrip]_vars

(* --------------------------- folder names ----------------------------- *)

\* In this part a version is the name of its folder, a sequence of characters,
\* folders is the listing readFolders returns, in the order it returns it, and
\* the ledger rows carry names in version and currentVersion. The names drawn
\* are not integer-like, so the keys of the objects integrityCheck builds keep
\* their insertion order. A run is one step: no hook and no task throws.

MaxFolders == 2

initName == <<"i", "n", "i", "t">>

\* the folder names a listing is drawn from:
\* 1.2, 1.10, 1.1-m ("versions/1.1-members"), m, a_b
FolderNames ==
    {<<"1", ".", "2">>, <<"1", ".", "1", "0">>, <<"1", ".", "1", "-", "m">>,
     <<"m">>, <<"a", "_", "b">>}

\* currentVersion of MigratorConfig.js: 1.1 or 1.10
ConfigVersions == {<<"1", ".", "1">>, <<"1", ".", "1", "0">>}

Digits == {"0", "1", "2"}

DigitValue(c) == CASE c = "0" -> 0 [] c = "1" -> 1 [] c = "2" -> 2

\* the character class [\d._]
VersionChars == Digits \cup {".", "_"}

Listings ==
    {l \in UNION {[1..n -> FolderNames] : n \in 0..MaxFolders} :
        \A i, j \in 1..Len(l) : i # j => l[i] # l[j]}

Listed(listing, name) == \E i \in 1..Len(listing) : listing[i] = name

\* the task files of a folder; 1.2 and 1.10 both hold a file named t1
readTasksOf(folder) ==
    CASE folder = initName -> <<"i1", "i2">>
      [] folder = <<"1", ".", "2">> -> <<"t1", "t2">>
      [] folder = <<"1", ".", "1", "0">> -> <<"t1">>
      [] folder = <<"1", ".", "1", "-", "m">> -> <<"m1">>
      [] folder = <<"m">> -> <<"x1">>
      [] OTHER -> <<"s1">>

RECURSIVE takeRun(_)
takeRun(s) ==
    IF s = <<>> \/ Head(s) \notin VersionChars THEN <<>>
    ELSE <<Head(s)>> \o takeRun(Tail(s))

\* folder.match(/([\d._]+)/)[0]: the first longest run of digits, dots and
\* underscores; <<>> stands for the null of a name without any
RECURSIVE match(_)
match(folder) ==
    IF folder = <<>> THEN <<>>
    ELSE IF Head(folder) \in VersionChars THEN takeRun(folder)
    ELSE match(Tail(folder))

\* the numeric components of a version, separated by dots and underscores
RECURSIVE numbers(_, _)
numbers(s, n) ==
    IF s = <<>> THEN <<n>>
    ELSE IF Head(s) \in Digits THEN numbers(Tail(s), 10 * n + DigitValue(Head(s)))
    ELSE <<n>> \o numbers(Tail(s), 0)

component(ns, i) == IF i <= Len(ns) THEN ns[i] ELSE 0

\* utils.isGreaterThanVersion on names: components compared from the left as
\* numbers, a missing component counts as zero
isGreaterThanVersionName(smallerVersion, greaterVersion) ==
    LET g == numbers(greaterVersion, 0)
        s == numbers(smallerVersion, 0)
        n == IF Len(g) > Len(s) THEN Len(g) ELSE Len(s)
    IN \E i \in 1..n :
         /\ component(g, i) > component(s, i)
         /\ \A j \in 1..(i - 1) : component(g, j) = component(s, j)

\* the keys of operations in insertion order: 'init', then the match of each
\* folder of the listing that has one; a key set twice keeps its first place
RECURSIVE operationKeys(_, _)
operationKeys(keys, listing) ==
    IF listing = <<>> THEN keys
    ELSE LET key == match(Head(listing))
         IN IF key = <<>> \/ Listed(keys, key)
            THEN operationKeys(keys, Tail(listing))
            ELSE operationKeys(Append(keys, key), Tail(listing))

\* value.length && value[0].currentVersion of the init rows; <<"0">> for the 0
\* of a ledger without init row
baselineName(rows) ==
    LET value == RowsOf(rows, initName)
    IN IF Len(value) > 0 THEN value[1].currentVersion ELSE <<"0">>

\* integrityCheck reads the task files of versions/<key>
readsTasks(rows, key) ==
    key # initName /\ isGreaterThanVersionName(baselineName(rows), key)

entryOfName(rows, key) ==
    LET actual == Len(RowsOf(rows, key))
    IN [version |-> key, actual |-> actual,
        expected |-> IF key = initName \/ readsTasks(rows, key)
                     THEN Len(readTasksOf(key)) ELSE actual]

\* integrityCheck on names: it rejects when it reads the tasks of a key that
\* is not a folder of the listing, and else answers the entries in key order
\* without the future versions that differ
integrityCheckNames(rows, listing, cv, force) ==
    LET keys == operationKeys(<<initName>>, listing)
        toReturn == [i \in 1..Len(keys) |-> entryOfName(rows, keys[i])]
    IN IF \E i \in 1..Len(keys) : readsTasks(rows, keys[i]) /\ ~Listed(listing, keys[i])
       THEN [threw |-> TRUE, entries |-> <<>>]
       ELSE [threw |-> FALSE,
             entries |-> SelectSeq(toReturn,
                 LAMBDA e : ~(/\ ~force /\ e.version # initName
                              /\ isGreaterThanVersionName(cv, e.version)
                              /\ e.actual # e.expected))]

tasksOfName(version) ==
    LET tasks == readTasksOf(version)
    IN [i \in 1..Len(tasks) |-> Op("task", version, tasks[i])]

\* the task files of every folder of the listing, under the folder's name
filesOfListing(listing) ==
    Flatten([i \in 1..Len(listing) |-> tasksOfName(listing[i])])

\* the work of a run on names: the tasks of each version in the order given,
\* with the completion after the init tasks (lib/index.js) or at the end of
\* init (part_000)
workOfNames(variant, op, versions) ==
    Flatten([i \in 1..Len(versions) |->
               tasksOfName(versions[i]) \o
               (IF versions[i] = initName /\ (variant = "lock" \/ op = "init")
                THEN <<Op("fill", initName, "")>> ELSE <<>>)])

\* the ops one after the other: a task with a row is skipped, any other is
\* executed and recorded; the completion runs unless a task was skipped
RECURSIVE executeNames(_, _, _, _, _)
executeNames(rec, rows, ops, listing, cv) ==
    IF ops = <<>> THEN [rec |-> rec, rows |-> rows]
    ELSE LET o == Head(ops)
         IN IF o.kind = "fill"
            THEN executeNames([rec EXCEPT !.skipped = FALSE,
                                         !.filled = @ \/ completes(rec)],
                              IF completes(rec)
                              THEN rows \o fillRows(rows, filesOfListing(listing), cv)
                              ELSE rows,
                              Tail(ops), listing, cv)
            ELSE IF Find(rows, o.name, o.v)
            THEN executeNames([rec EXCEPT !.skipped = TRUE,
                                         !.skips = Append(@, <<o.name, o.v>>)],
                              rows, Tail(ops), listing, cv)
            ELSE executeNames([rec EXCEPT !.ran = Append(@, <<o.name, o.v>>)],
                              Append(rows, Row(o.name, o.v, cv)),
                              Tail(ops), listing, cv)

\* a tree with its listing, and a database that is empty or was initialised
\* at 1.1 with no version folder on disk
InitTree ==
    /\ impl \in {"lock", "renew"}
    /\ ddlCommits = TRUE
    /\ absent = {}
    /\ ddl = DDLTasks
    /\ shared = FALSE
    /\ database = "ok"
    /\ cfgVersion \in ConfigVersions
    /\ folders \in Listings
    /\ tables = {"migrations", "migrations_lock"}
    /\ lockRows = 1
    /\ ledger \in {<<>>, [i \in 1..Len(readTasksOf(initName)) |->
                            Row(readTasksOf(initName)[i], initName, <<"1", ".", "1">>)]}
    /\ effects = {}
    /\ releasedAt = 0
    /\ rowLock = 0
    /\ self = [i \in Slots |-> NoFields]
    /\ run = [r \in Slots |-> Idle]
    /\ nRuns = 0
    /\ prev = NoRun

\* the run that has ended, as the record of slot 1
EndedTree(op, force, out, result) ==
    /\ run' = [run EXCEPT ![1] = [out.rec EXCEPT !.op = op, !.opts.force = force,
                                               !.cv = cfgVersion, !.serial = nRuns + 1,
                                               !.start = ledger, !.pc = "done",
                                               !.result = result]]
    /\ ledger' = out.rows
    /\ nRuns' = nRuns + 1
    /\ UNCHANGED <<fixed, self, database, cfgVersion, folders, tables, lockRows, effects, releasedAt,
                   rowLock, prev>>

\* init() on the tree
initTree ==
    /\ nRuns < MaxRuns
    /\ EndedTree("init", FALSE,
                 executeNames(Idle, ledger, workOfNames(impl, "init", <<initName>>),
                              folders, cfgVersion),
                 "ok")

\* migrate({force}) on the tree
migrateTree ==
    /\ nRuns < MaxRuns
    /\ \E force \in BOOLEAN :
         LET result == integrityCheckNames(ledger, folders, cfgVersion, force)
             pending == SelectSeq(result.entries, LAMBDA e : e.expected # e.actual)
             versions == [i \in 1..Len(pending) |-> pending[i].version]
         IN IF result.threw
            THEN EndedTree("migrate", force, [rec |-> Idle, rows |-> ledger],
                           "MIGRATION_PATH")
            ELSE EndedTree("migrate", force,
                           executeNames(Idle, ledger,
                                        workOfNames(impl, "migrate", versions),
                                        folders, cfgVersion),
                           "ok")

NextTree == initTree \/ migrateTree

SpecTree == InitTree /\ [][NextTree]_vars

(* --------------------------- migrate again ---------------------------- *)

\* a database whose ledger holds rows of init tasks alone: its version
\* folders are still to be migrated, and so is init when a row is missing
InitAgain ==
    /\ InitRequest
    /\ \A i \in 1..Len(ledger) : ledger[i].version = InitVersion

\* migrate(options), one call after the other
NextAgain == StartMigrate \/ StepMigrate(1)

SpecAgain == InitAgain /\ [][NextAgain]_vars

(* ------------------------ missing directories ------------------------- *)

\* runs and health checks started in one behaviour on a tree that lacks a
\* directory
MaxPathRuns == 3

\* a new database and a migration path without init directory, without
\* versions root, or without both
InitPaths ==
    /\ impl \in {"lock", "renew"}
    /\ ddlCommits \in BOOLEAN
    /\ absent \in {{"init"}, {"versions"}, {"init", "versions"}}
    /\ ddl = DDLTasks
    /\ shared = FALSE
    /\ database = "ok"
    /\ cfgVersion = 1
    /\ folders = IF versionsRootMissing THEN {} ELSE {1}
    /\ tables = {}
    /\ lockRows = 0
    /\ ledger = <<>>
    /\ effects = {}
    /\ releasedAt = 0
    /\ rowLock = 0
    /\ self = [i \in Slots |-> NoFields]
    /\ run = [r \in Slots |-> Idle]
    /\ nRuns = 0
    /\ prev = NoRun

StartInitPaths == \E opts \in InitOptions : Start(1, "init", opts, MaxPathRuns)

StartMigratePaths ==
    \E force \in BOOLEAN :
        Start(1, "migrate", [NoOptions EXCEPT !.force = force], MaxPathRuns)

StartOKPaths == Start(1, "health", NoOptions, MaxPathRuns)

NextPaths ==
    \/ StartInitPaths
    \/ StartMigratePaths
    \/ StartOKPaths
    \/ Step(1)
    \/ isDatabaseOK(1)

SpecPaths == InitPaths /\ [][NextPaths]_vars

(* ------------------------ init after a skip --------------------------- *)

\* a tree in which the second init task issues the DDL statement, alone or
\* as the first does
InitBackfill == NewDatabase /\ ddl \in {{"i2"}, {"i1", "i2"}} /\ shared = FALSE

\* init runs, and version folders added between them
NextBackfill ==
    \/ AddFolder
    \/ StartInit
    \/ StepInit(1)

SpecBackfill == InitBackfill /\ [][NextBackfill]_vars

(* --------------------------- the connection --------------------------- *)

\* init and migrate, each called when the promise of the call before it has
\* settled
StartCleanup ==
    /\ run[1].pc # "done"
    /\ StartInit \/ StartMigrate

\* the runs with their finally
NextCleanup ==
    \/ StartCleanup
    \/ Step(1)
    \/ shutdownHook(1)
    \/ destroyConnection(1)

SpecCleanup == Init /\ [][NextCleanup]_vars

(* --------------------- two operations, one object --------------------- *)

\* an operation of part_000 reads this.transacting after another finally
\* has set it to null: the op throws a TypeError, the catch of transactional
\* calls self.transacting.rollback(err) and throws again; nothing settles
\* the promise of connection.transaction, the transaction stays open
lostHandle(r) ==
    /\ impl = "renew"
    /\ run[r].pc \in {"op", "exec", "rec", "renew", "rollback"}
    /\ self[InstanceOf(r)].transacting = NoHandle
    /\ run' = [run EXCEPT ![r].pc = "pending", ![r].err = "TYPE_ERROR"]
    /\ UNCHANGED <<fixed, self, database, cfgVersion, folders, tables, lockRows, ledger,
                   effects, releasedAt, rowLock, nRuns, prev>>

\* one KnexMigrator of part_000 for both slots
InitInstance == NewDatabase /\ ddl = DDLTasks /\ shared = TRUE /\ impl = "renew"

\* init or migrate is called on the object, once
StartInstance ==
    /\ run[1].pc = "idle"
    /\ StartInit \/ StartMigrate

\* isDatabaseOK is called on the object while the run is in progress
StartOKInstance == Start(2, "health", NoOptions, MaxConcurrent)

NextInstance ==
    \/ StartInstance
    \/ StartOKInstance
    \/ migrateCheck(1)
    \/ createTransaction(1)
    \/ runHook(1)
    \/ createMigrationsTableOp(1)
    \/ beforeEachTask(1)
    \/ execute(1)
    \/ afterEachTask(1)
    \/ renew(1)
    \/ transactionalEnd(1)
    \/ rollback(1)
    \/ lostHandle(1)
    \/ isDatabaseOK(2)
    \/ shutdownHook(1)
    \/ \E r \in Slots : destroyConnection(r)

SpecInstance == InitInstance /\ [][NextInstance]_vars

(* ----------------------------- two runs ------------------------------- *)

\* the row lock of SELECT ... FOR UPDATE is the engine's with DDL commits
InitConcurrent == Init /\ ddlCommits

SpecConcurrent == InitConcurrent /\ [][NextConcurrent]_vars

(* ----------------------------- properties ----------------------------- *)

\* C1: idempotence of migrate. A migrate run that directly follows a migrate
\* run which completed, with the same options, the same database and the same
\* task files, executes no task body and leaves the ledger rows as they were.
C1_Idempotence ==
    \A r \in Slots :
        (run[r].op = "migrate" /\ run[r].before.op = "migrate"
            /\ run[r].before.opts = run[r].opts)
        => /\ run[r].ran = <<>>
           /\ run[r].pend = <<>>
           /\ ledger = run[r].start

\* a second migrate has completed after a first one that executed tasks, and
\* its pre-check has skipped a task the first one recorded
C1_Witness ==
    \E r \in Slots :
        /\ run[r].op = "migrate" /\ run[r].pc = "done" /\ run[r].result = "ok"
        /\ run[r].before.op = "migrate" /\ run[r].before.opts = run[r].opts
        /\ run[r].before.n > 0
        /\ run[r].skips # <<>>

\* C2: the pre-check skip. When the pre-check of a task meets a ledger row of
\* the task's (name, version), the step of the run executes nothing, raises no
\* error, writes nothing and leaves the run at the next op in order.
C2_PreCheckSkip ==
    [][\A r \in Slots :
          (/\ HeadIs(r, {"task"})
           /\ Find(Visible(r), Head(run[r].ops).name, Head(run[r].ops).v)
           /\ run'[r].pc # run[r].pc \/ run'[r].ops # run[r].ops)
          => /\ run'[r].ran = run[r].ran
             /\ run'[r].err = ""
             /\ run'[r].pc = "op"
             /\ run'[r].ops = Tail(run[r].ops)
             /\ ledger' = ledger
             /\ effects' = effects]_vars

\* a run has completed in which a task was skipped and a task was executed
C2_Witness ==
    \E r \in Slots :
        /\ run[r].pc = "done" /\ run[r].result = "ok"
        /\ run[r].skips # <<>>
        /\ run[r].ran # <<>>

C4_NoFutureVersion ==
    \A r \in Slots :
        (run[r].op = "migrate" /\ ~run[r].opts.force)
        => /\ \A i \in 1..Len(run[r].ran) :
                ~isGreaterThanVersion(run[r].cv, run[r].ran[i][2])
           /\ \A v \in Versions :
                isGreaterThanVersion(run[r].cv, v)
                => Len(RowsOf(Visible(r), v)) = Len(RowsOf(run[r].start, v))
           /\ LET result == integrityCheck(Visible(r), run[r].cv, FALSE)
              IN \A i \in 1..Len(result) :
                   isGreaterThanVersion(run[r].cv, result[i].version)
                   => result[i].expected = result[i].actual

\* C5: fail-fast locking. A run that calls lock() while the other run is
\* between its lock() and its unlock() executes no task and rejects with
\* MigrationsLocked.
C5_FailFast ==
    \A r \in Slots :
        run[r].contended
        => /\ run[r].ran = <<>>
           /\ run[r].pc = "done" => run[r].result = "MIGRATIONS_LOCKED"

\* C6: mutual exclusion. Two runs are never both between a lock() that
\* answered and their unlock(), at the integrity check or among the tasks.
C6_MutualExclusion ==
    ~(\A s \in Slots : InCritical(s) /\ run[s].pc \in {"check", "op", "exec", "rec"})

\* C7: unconditional unlock. A run in which lock() answered has called
\* unlock() when its promise has settled, whatever the outcome.
C7_Unlock ==
    \A r \in Slots :
        (run[r].pc = "done" /\ run[r].lockOk) => run[r].unlocks >= 1

\* a run that took the lock has rejected, after a hook or a task threw, and
\* has called unlock()
C7_Witness ==
    \E r \in Slots :
        /\ run[r].pc = "done" /\ run[r].lockOk
        /\ run[r].result \in {"HOOK_ERROR", "MIGRATION_SCRIPT", "MIGRATION_SCRIPT_FIELD",
                              "TYPE_ERROR"}
        /\ run[r].unlocks >= 1

\* C8: ledger uniqueness. The ledger never holds two rows of one
\* (name, version) pair.
C8_Unique ==
    \A i, j \in 1..Len(ledger) :
        (ledger[i].name = ledger[j].name /\ ledger[i].version = ledger[j].version)
        => i = j

\* C9: when a migrate run has completed and no run is in progress, the
\* integrity check answers actual <= expected for every version of its result.
C9_ActualAtMostExpected ==
    \A r \in Slots :
        (/\ run[r].op = "migrate" /\ run[r].pc = "done" /\ run[r].result = "ok"
         /\ \A s \in Slots : ~Active(s))
        => \A f \in BOOLEAN :
             LET result == integrityCheck(ledger, cfgVersion, f)
             IN \A i \in 1..Len(result) : result[i].actual <= result[i].expected

\* C10 as stated: whenever a version of the integrity result, init included,
\* has actual > expected, isDatabaseOK rejects with MIGRATION_STATE_ERROR.
C10_AnyExcess ==
    \A r \in Slots :
        (run[r].op = "health" /\ run[r].pc = "done" /\ "migrations" \in tables)
        => LET result == integrityCheck(ledger, run[r].cv, FALSE)
           IN (\E i \in 1..Len(result) : result[i].actual > result[i].expected)
              => run[r].result = "MIGRATION_STATE_ERROR"

\* C10: state-error detection. Whenever a version of the integrity result
\* other than init has actual > expected, isDatabaseOK rejects: with
\* MIGRATION_STATE_ERROR when init has all its rows and no version before the
\* first such version lacks rows, with DB_NOT_INITIALISED when init lacks
\* rows, and with DB_NEEDS_MIGRATION otherwise.
C10_StateError ==
    \A r \in Slots :
        (run[r].op = "health" /\ run[r].pc = "done" /\ "migrations" \in tables)
        => LET result == integrityCheck(ledger, run[r].cv, FALSE)
               excess == {i \in 1..Len(result) :
                            /\ result[i].version # InitVersion
                            /\ result[i].actual > result[i].expected}
               short == {i \in 1..Len(result) : result[i].expected > result[i].actual}
           IN excess # {}
              => run[r].result =
                   IF \E i \in short : result[i].version = InitVersion
                   THEN "DB_NOT_INITIALISED"
                   ELSE IF \E i \in short : \A j \in excess : i < j
                   THEN "DB_NEEDS_MIGRATION"
                   ELSE "MIGRATION_STATE_ERROR"

\* isDatabaseOK has rejected with MIGRATION_STATE_ERROR on a ledger in which
\* a version other than init holds more rows than it has task files
C10_Witness ==
    \E r \in Slots :
        /\ run[r].op = "health" /\ run[r].pc = "done"
        /\ run[r].result = "MIGRATION_STATE_ERROR"
        /\ \E v \in folders : Len(RowsOf(ledger, v)) > Len(readTasks(v))

completed(r) ==
    LET result == integrityCheck(run[r].start, run[r].cv, run[r].opts.force)
    IN \A i \in 1..Len(result) :
         result[i].expected # result[i].actual
         => LET v == result[i].version
                tasks == readTasks(v)
            IN /\ \A k \in 1..Len(tasks) : Count(ledger, tasks[k], v) = 1
               /\ Len(RowsOf(ledger, v)) = Len(tasks)

\* C12: completeness of migrate. When migrate({force: true}), with no version
\* and no only, has completed, and as long as the configuration and the tree
\* are the ones it ran on, every version the integrity check reported with
\* expected # actual holds exactly one ledger row for each of its task files,
\* and as many rows as it has task files.
C12_Complete ==
    \A r \in Slots :
        (/\ run[r].op = "migrate" /\ run[r].pc = "done" /\ run[r].result = "ok"
         /\ run[r].opts = [force |-> TRUE, version |-> 0, only |-> 0]
         /\ prev.op = "migrate")
        => completed(r)

\* a forced migrate has completed for which two versions were pending, one
\* of them above the configured version, and has executed tasks of both
C12_Witness ==
    \E r \in Slots :
        /\ run[r].op = "migrate" /\ run[r].pc = "done" /\ run[r].result = "ok"
        /\ run[r].opts = [force |-> TRUE, version |-> 0, only |-> 0]
        /\ prev.op = "migrate"
        /\ Len(versionsToMigrate(integrityCheck(run[r].start, run[r].cv, TRUE))) >= 2
        /\ \E i \in 1..Len(run[r].ran) :
             isGreaterThanVersion(run[r].cv, run[r].ran[i][2])
        /\ \E i \in 1..Len(run[r].ran) : run[r].ran[i][2] = InitVersion

C16_DueAtOrBelowBaseline ==
    \A r \in Slots :
        (run[r].op = "health" /\ run[r].pc = "done" /\ "migrations" \in tables)
        => \A v \in folders :
             checkEntry(ledger, v).expected =
                 IF v <= currentVersionInitTask(ledger)
                 THEN Len(readTasks(v))
                 ELSE checkEntry(ledger, v).actual

\* C16: expected count. The integrity check sets expected of init to the
\* number of init task files; for a version other than init it sets expected
\* to the number of task files of the version when the version is greater
\* than the baseline stored on the first init row (or there is no init row),
\* and to actual otherwise.
C16_Expected ==
    \A r \in Slots :
        (run[r].op = "health" /\ run[r].pc = "done" /\ "migrations" \in tables)
        => /\ checkEntry(ledger, InitVersion).expected = Len(readTasks(InitVersion))
           /\ \A v \in folders :
                checkEntry(ledger, v).expected =
                    IF v > currentVersionInitTask(ledger)
                    THEN Len(readTasks(v))
                    ELSE checkEntry(ledger, v).actual

\* isDatabaseOK has checked a ledger with a version at or below the baseline
\* and a version above it, both with fewer rows than task files
C16_Witness ==
    \E r \in Slots :
        /\ run[r].op = "health" /\ run[r].pc = "done" /\ "migrations" \in tables
        /\ RowsOf(ledger, InitVersion) # <<>>
        /\ \E v \in folders :
             /\ v <= currentVersionInitTask(ledger)
             /\ Len(RowsOf(ledger, v)) < Len(readTasks(v))
        /\ \E v \in folders :
             /\ v > currentVersionInitTask(ledger)
             /\ Len(RowsOf(ledger, v)) < Len(readTasks(v))

\* run r completes at this step
Completes(r) ==
    run[r].pc # "done" /\ run'[r].pc = "done" /\ run'[r].result = "ok"

\* the entry of version v in the integrity result run r started from differs
PendingAtStart(r, v) ==
    LET result == integrityCheck(run[r].start, run[r].cv, run[r].opts.force)
    IN \E i \in 1..Len(result) :
         result[i].version = v /\ result[i].expected # result[i].actual

\* C17: only with a version. At the step that completes
\* migrate({version: V, only: k}), with V a pending version folder, k at most
\* the number of tasks of V and task k of V not recorded at the start, the run
\* has executed the k-th task of V and no other task, and the ledger holds
\* one row more than at the start.
C17_OnlyTask ==
    [][\A r \in Slots :
         (/\ Completes(r) /\ run[r].op = "migrate"
          /\ run[r].opts.version \in folders
          /\ run[r].opts.only \in 1..Len(readTasks(run[r].opts.version))
          /\ PendingAtStart(r, run[r].opts.version)
          /\ ~Find(run[r].start, readTasks(run[r].opts.version)[run[r].opts.only],
                   run[r].opts.version))
         => /\ run'[r].ran = <<<<readTasks(run[r].opts.version)[run[r].opts.only],
                                  run[r].opts.version>>>>
            /\ Len(ledger') = Len(run[r].start) + 1]_vars

\* C18: version restriction. At the step that completes
\* migrate({version: V}), every task the run has executed and every row it
\* has added is of version V.
C18_VersionOnly ==
    [][\A r \in Slots :
         (/\ Completes(r) /\ run[r].op = "migrate"
          /\ run[r].opts.version \in folders)
         => /\ \A i \in 1..Len(run'[r].ran) : run'[r].ran[i][2] = run[r].opts.version
            /\ \A i \in 1..Len(ledger') :
                 i > Len(run[r].start) => ledger'[i].version = run[r].opts.version]_vars

\* the work that is left is an end of the work migrate() has
RestOf(ops, work) ==
    \E n \in 0..Len(work) : ops = SubSeq(work, n + 1, Len(work))

\* C19: only without a version is ignored. The work of a migrate({only: k})
\* without version is at every moment an end of the work migrate() gets from
\* the same integrity result, and when the run has completed every version
\* that was pending holds one row per task file.
C19_OnlyIgnored ==
    \A r \in Slots :
        (run[r].op = "migrate" /\ run[r].opts.version = 0 /\ run[r].opts.only # 0)
        => /\ RestOf(run[r].ops,
                     migrateOps(impl,
                                versionsToMigrate(integrityCheck(run[r].start, run[r].cv,
                                                                 run[r].opts.force)),
                                0))
           /\ (run[r].pc = "done" /\ run[r].result = "ok") => completed(r)

\* a migrate({only: 1}) without version has completed and has executed the
\* second task of a version
C19_Witness ==
    \E r \in Slots :
        /\ run[r].op = "migrate" /\ run[r].pc = "done" /\ run[r].result = "ok"
        /\ run[r].opts.version = 0 /\ run[r].opts.only = 1
        /\ \E i \in 1..Len(run[r].ran) :
             \E v \in folders :
                Len(readTasks(v)) >= 2 /\ run[r].ran[i] = <<readTasks(v)[2], v>>

\* C13: init back-fill. After an init() in which no init task was skipped,
\* every task file of every folder of the listing has a ledger row under the
\* version the integrity check counts the folder under (the match of its
\* name; any version for a folder the check leaves out), and no body of these
\* tasks was executed.
C13_BackFill ==
    (run[1].op = "init" /\ run[1].pc = "done" /\ run[1].result = "ok"
     /\ run[1].skips = <<>>)
    => \A i \in 1..Len(folders) :
         LET tasks == readTasksOf(folders[i])
             key == match(folders[i])
         IN \A k \in 1..Len(tasks) :
              /\ IF key = <<>> THEN HasName(ledger, tasks[k])
                 ELSE Find(ledger, tasks[k], key)
              /\ \A n \in 1..Len(run[1].ran) : run[1].ran[n][1] # tasks[k]

\* version a is ordered before version b: init before every folder, folders
\* by their numeric components
Before(a, b) ==
    /\ b # initName
    /\ a = initName \/ isGreaterThanVersionName(a, b)

\* the place of a task file among the task files of its version
Place(task, version) ==
    CHOOSE k \in 1..Len(readTasksOf(version)) : readTasksOf(version)[k] = task

\* C15: execution order. The tasks a migrate has executed are in ascending
\* order of their versions, compared by numeric components, and within one
\* version in the order of the task files.
C15_Ascending ==
    (run[1].op = "migrate" /\ run[1].pc = "done" /\ run[1].result = "ok")
    => \A i, j \in 1..Len(run[1].ran) :
         i < j => LET a == run[1].ran[i]
                      b == run[1].ran[j]
                  IN IF a[2] = b[2] THEN Place(a[1], a[2]) < Place(b[1], b[2])
                     ELSE Before(a[2], b[2])

NoDigit(name) == \A i \in 1..Len(name) : name[i] \notin Digits

\* C20: unparseable folders. For every folder of the listing whose name holds
\* no digit, the integrity check of a migrate does not throw, its result has
\* no entry for the folder, and the migrate executes no task of the folder.
C20_Unparseable ==
    (run[1].op = "migrate" /\ run[1].pc = "done")
    => \A i \in 1..Len(folders) :
         NoDigit(folders[i])
         => LET result == integrityCheckNames(run[1].start, folders, run[1].cv,
                                              run[1].opts.force)
            IN /\ ~result.threw
               /\ \A n \in 1..Len(result.entries) :
                    result.entries[n].version # match(folders[i])
               /\ \A n \in 1..Len(run[1].ran) :
                    run[1].ran[n][2] \notin {folders[i], match(folders[i])}

\* C21: integrity-check error translation. isDatabaseOK on a configuration
\* without a selected database or on a database that does not exist rejects
\* with DB_NOT_INITIALISED, on a database without the migrations table with
\* MIGRATION_TABLE_IS_MISSING; the verdict on the versions is not reached.
C21_LookupError ==
    \A r \in Slots :
        (run[r].op = "health" /\ run[r].pc = "done")
        => /\ database \in {"unselected", "missing"}
              => run[r].result = "DB_NOT_INITIALISED"
           /\ (database = "ok" /\ "migrations" \notin tables)
              => run[r].result = "MIGRATION_TABLE_IS_MISSING"
           /\ lookupErrno # 0
              => run[r].result \notin {"ok", "DB_NEEDS_MIGRATION", "MIGRATION_STATE_ERROR"}

\* isDatabaseOK has rejected with DB_NOT_INITIALISED on a database that does
\* not exist, where init has no row and would be reported as lacking rows
C21_Witness ==
    \E r \in Slots :
        /\ run[r].op = "health" /\ run[r].pc = "done"
        /\ database = "missing"
        /\ run[r].result = "DB_NOT_INITIALISED"

\* C22 as stated: DB_NOT_INITIALISED when init has fewer rows than task
\* files, DB_NEEDS_MIGRATION when some other version of the result has
\* expected > actual, resolved when every version has expected = actual.
C22_AnyShortfall ==
    \A r \in Slots :
        (run[r].op = "health" /\ run[r].pc = "done" /\ lookupErrno = 0)
        => LET result == integrityCheck(ledger, run[r].cv, FALSE)
               short == {i \in 1..Len(result) : result[i].expected > result[i].actual}
           IN /\ (\E i \in short : result[i].version = InitVersion)
                 => run[r].result = "DB_NOT_INITIALISED"
              /\ (\E i \in short : result[i].version # InitVersion)
                 => run[r].result = "DB_NEEDS_MIGRATION"
              /\ (\A i \in 1..Len(result) : result[i].expected = result[i].actual)
                 => run[r].result = "ok"

\* C22: health codes. isDatabaseOK rejects with DB_NOT_INITIALISED when init
\* has fewer rows than task files; otherwise it rejects with
\* DB_NEEDS_MIGRATION when the first version other than init whose counts
\* differ has expected > actual; it resolves when every version of the result
\* has expected = actual.
C22_HealthCodes ==
    \A r \in Slots :
        (run[r].op = "health" /\ run[r].pc = "done" /\ lookupErrno = 0)
        => LET result == integrityCheck(ledger, run[r].cv, FALSE)
               short == {i \in 1..Len(result) : result[i].expected > result[i].actual}
               differ == {i \in 1..Len(result) :
                            /\ result[i].version # InitVersion
                            /\ result[i].expected # result[i].actual}
           IN /\ (\E i \in short : result[i].version = InitVersion)
                 => run[r].result = "DB_NOT_INITIALISED"
              /\ (/\ \A i \in short : result[i].version # InitVersion
                  /\ \E i \in short : \A j \in differ : i <= j)
                 => run[r].result = "DB_NEEDS_MIGRATION"
              /\ (\A i \in 1..Len(result) : result[i].expected = result[i].actual)
                 => run[r].result = "ok"

\* isDatabaseOK has rejected with DB_NEEDS_MIGRATION on a ledger with more
\* init rows than init task files and a version that lacks rows
C22_Witness ==
    \E r \in Slots :
        /\ run[r].op = "health" /\ run[r].pc = "done"
        /\ run[r].result = "DB_NEEDS_MIGRATION"
        /\ Len(RowsOf(ledger, InitVersion)) > Len(readTasks(InitVersion))
        /\ LET result == integrityCheck(ledger, run[r].cv, FALSE)
           IN \E i \in 1..Len(result) : result[i].expected > result[i].actual

\* run r has rejected at the body of a task: the op it stopped at is a task
\* whose body it had called last
FailedAtTask(r) ==
    /\ run[r].pc = "done" /\ run[r].result # "ok"
    /\ run[r].ops # <<>> /\ Head(run[r].ops).kind = "task"
    /\ run[r].ran # <<>>
    /\ run[r].ran[Len(run[r].ran)] = <<Head(run[r].ops).name, Head(run[r].ops).v>>

\* C23 as stated: a run that has rejected at the body of a task has rejected
\* with the MigrationScript error that names the task.
C23_NamesTask ==
    \A r \in Slots : FailedAtTask(r) => run[r].result = "MIGRATION_SCRIPT"

\* C23: task failure. A run that has rejected at the body of a task has
\* rejected with a MigrationScript error, which names the task except for
\* ER_TOO_LONG_KEY in lib/index.js, where it names the table and the field;
\* the after hook was not run, the failing task has no ledger row, and the
\* transaction is closed with nothing pending. From the throw on the run
\* does nothing but unlock and roll back.
C23_TaskFailure ==
    \A r \in Slots :
        /\ FailedAtTask(r)
           => /\ run[r].result \in {"MIGRATION_SCRIPT", "MIGRATION_SCRIPT_FIELD"}
              /\ run[r].result = "MIGRATION_SCRIPT_FIELD" => impl = "lock"
              /\ \A i \in 1..Len(run[r].hooks) : run[r].hooks[i] # "after"
              /\ ~Find(ledger, Head(run[r].ops).name, Head(run[r].ops).v)
              /\ run[r].txn = "none" /\ run[r].pend = <<>>
        /\ (Active(r) /\ run[r].err # "") => run[r].pc \in {"unlockE", "rollback"}

\* a run has rejected at the body of its second task with the error that
\* names the task, with a later task and the after hook left
C23_Witness ==
    \E r \in Slots :
        /\ FailedAtTask(r)
        /\ run[r].result = "MIGRATION_SCRIPT"
        /\ Len(run[r].ran) >= 2
        /\ Len(run[r].ops) >= 3
        /\ run[r].hooks = <<"before">>

\* C24 (as stated): missing init directory. When <migrationPath>/init does not
\* exist, no operation that consults the init version (init, migrate, the
\* integrity check, isDatabaseOK) fails with MigrationPathMissing: each takes
\* init for a version of zero tasks.
C24_ZeroTasks ==
    \A r \in Slots :
        initPathMissing
        => /\ run[r].err # "MIGRATION_PATH"
           /\ run[r].result # "MIGRATION_PATH"

\* C25: missing versions root. When the versions root does not exist and
\* every init task succeeds, init() terminates: the run is never left with
\* its transaction open and its promise unsettled, and once it has resolved
\* its transaction is closed and the rows of the init tasks it executed are
\* committed.
C25_InitTerminates ==
    \A r \in Slots :
        (versionsRootMissing /\ run[r].op = "init")
        => /\ run[r].pc # "pending"
           /\ (run[r].pc = "done" /\ run[r].result = "ok")
              => /\ run[r].txn = "none"
                 /\ run[r].pend = <<>>
                 /\ \A i \in 1..Len(run[r].ran) :
                      Find(ledger, run[r].ran[i][1], run[r].ran[i][2])

\* an init run is at or past the insert of the km01 row, or has found the
\* lock table in place
Ensured(r) == run[r].op = "init" /\ run[r].ensured

\* C26: lock record cardinality. Once an init run has completed
\* ensureLockTable, under every interleaving of two init runs, the
\* migrations_lock table holds exactly one row.
C26_OneLockRow ==
    (\E r \in Slots : Ensured(r)) => lockRows = 1

\* C27: lock-table creation race. An init run that loses the creation of the
\* lock table to a concurrent init run fails with MigrationsLocked, never
\* with an error of the driver.
C27_LoserIsLocked ==
    \A r \in Slots :
        (impl = "lock" /\ run[r].op = "init" /\ run[r].pc = "done" /\ ~run[r].ensured)
        => run[r].result = "MIGRATIONS_LOCKED"

\* the record step of run r meets a row of its task that it can see
RowAtRecord(r) ==
    /\ run[r].pc = "rec"
    /\ Find(Visible(r), Head(run[r].ops).name, Head(run[r].ops).v)

\* C28: lost race at record time. When the record step of a task finds a row
\* for (task, version), written by another run after this run's pre-check,
\* the step inserts no second row, raises no error and the run goes on with
\* the next op.
C28_LostRace ==
    [][\A r \in Slots :
         (RowAtRecord(r) /\ run'[r].pc # "rec")
         => /\ ledger' = ledger
            /\ run'[r].pend = run[r].pend
            /\ run'[r].err = ""
            /\ run'[r].pc = "op"
            /\ run'[r].ops = Tail(run[r].ops)]_vars

IsPrefix(p, q) == Len(p) <= Len(q) /\ \A i \in 1..Len(p) : q[i] = p[i]

\* no task body has issued a DDL statement since the current transaction of
\* run r began: part_000 renews after every such task that answers, so only
\* the failed task may have; lib/index.js has one transaction for the run
NoDDLInSegment(r) ==
    IF impl = "renew"
    THEN ~implicitCommits(Head(run[r].ops).name)
    ELSE \A i \in 1..Len(run[r].ran) : ~implicitCommits(run[r].ran[i][1])

PlaceOf(work, t) ==
    {k \in 1..Len(work) : work[k] = Op("task", t[2], t[1])}

\* C30: no op lost or repeated across renewals. Within one run, across its
\* renewals, the ops called so far are the first ops of the work the run was
\* given: what remains is the rest of that work, from the op that is under
\* way or has failed; the hooks and the tasks executed were called once each
\* and in the order of the work; and when the run resolves every op has been
\* called (each hook ran, each task was executed or skipped) and no work
\* remains.
C30_OpsOnceInOrder ==
    \A r \in Slots :
        LET n == run[r].calls
            work == run[r].work
        IN /\ n <= Len(work)
           /\ \/ run[r].ops = SubSeq(work, n + 1, Len(work))
              \/ /\ n > 0
                 /\ run[r].ops = SubSeq(work, n, Len(work))
                 /\ run[r].pc \in {"exec", "rec", "unlockE", "rollback", "done"}
           /\ run[r].hooks \in {<<>>, <<"before">>, <<"before", "after">>}
           /\ \A i \in 1..Len(run[r].ran) :
                /\ \E k \in PlaceOf(work, run[r].ran[i]) : k <= n
                /\ \A j \in 1..(i - 1) :
                     \E k \in PlaceOf(work, run[r].ran[j]) :
                        \E l \in PlaceOf(work, run[r].ran[i]) : k < l
           /\ (run[r].pc = "done" /\ run[r].result = "ok" /\ run[r].op # "health")
              => /\ n = Len(work)
                 /\ run[r].ops = <<>>
                 /\ Len(run[r].hooks) + Len(run[r].ran) + Len(run[r].skips)
                    = Cardinality({i \in 1..n :
                          work[i].kind \in {"before", "after", "task"}})

\* a run of part_000 has resolved after a renewal, with a hook before the
\* renewal and a task and a hook after it
C30_Witness ==
    \E r \in Slots :
        /\ impl = "renew"
        /\ run[r].pc = "done"
        /\ run[r].result = "ok"
        /\ run[r].renewals >= 1
        /\ Len(run[r].work) >= 4
        /\ run[r].calls = Len(run[r].work)
        /\ Len(run[r].ran) >= 2
        /\ run[r].hooks = <<"before", "after">>

\* the body of the task run r called last has thrown
BodyFailed(r) ==
    /\ run[r].err \in {"MIGRATION_SCRIPT", "MIGRATION_SCRIPT_FIELD"}
    /\ run[r].ran # <<>>

\* C31: record after success. A task of the run's work has a ledger row
\* written by the per-task protocol (a row the run added, other than a row
\* of the init completion) only if the run has called its body and the body
\* has answered; the task whose body threw has no row of the run, also when
\* its DDL statement had committed the transaction before it threw.
C31_RecordAfterSuccess ==
    \A r \in Slots :
        /\ \A k \in 1..Len(run[r].work) :
             LET o == run[r].work[k]
             IN (/\ o.kind = "task"
                 /\ o.v = InitVersion \/ ~run[r].filled
                 /\ Count(Visible(r), o.name, o.v) > Count(run[r].start, o.name, o.v))
                => \E i \in 1..Len(run[r].ran) :
                     /\ run[r].ran[i] = <<o.name, o.v>>
                     /\ i = Len(run[r].ran) => ~BodyFailed(r)
        /\ BodyFailed(r)
           => LET t == run[r].ran[Len(run[r].ran)]
              IN Count(Visible(r), t[1], t[2]) = Count(run[r].start, t[1], t[2])

\* a run has rejected at a task whose DDL statement had committed before the
\* body threw: the effect of the body is in the database, its row is not
C31_Witness ==
    \E r \in Slots :
        /\ FailedAtTask(r)
        /\ ddlCommits /\ implicitCommits(Head(run[r].ops).name)
        /\ <<Head(run[r].ops).name, Head(run[r].ops).v>> \in effects
        /\ ~Find(ledger, Head(run[r].ops).name, Head(run[r].ops).v)
        /\ Len(ledger) > Len(run[r].start)

\* the tasks among the ops
TasksOf(ops) == SelectSeq(ops, LAMBDA o : o.kind = "task")

\* C32: run protocol order. In a migrate run with a pending version lock()
\* has answered before the before hook is called; the before hook runs once
\* and has answered before the pre-check of the first task; the after hook
\* runs once, after every task was executed or skipped, and not when a task
\* failed. A run with no pending version runs no hook and no task.
C32_RunProtocolOrder ==
    \A r \in Slots :
        run[r].op = "migrate"
        => /\ run[r].hooks # <<>> => run[r].lockOk
           /\ run[r].hooks \in {<<>>, <<"before">>, <<"before", "after">>}
           /\ (\E k \in 1..run[r].calls : run[r].work[k].kind = "task")
              => run[r].hooks # <<>>
           /\ Len(run[r].hooks) = 2
              => /\ Len(run[r].ran) + Len(run[r].skips) = Len(TasksOf(run[r].work))
                 /\ run[r].err = ""
           /\ (run[r].pc = "done" /\ run[r].result = "ok" /\ run[r].work # <<>>)
              => run[r].hooks = <<"before", "after">>
           /\ run[r].work = <<>> => (run[r].hooks = <<>> /\ run[r].ran = <<>>)

\* C33: cleanup on every exit. When init or migrate has settled, on whatever
\* path, the connection the run opened has been destroyed once, the run's
\* transaction was committed or rolled back before, and the shutdown hook was
\* called before the connection was destroyed.
C33_Cleanup ==
    \A r \in Slots :
        /\ (run[r].pc = "closed" /\ run[r].op \in {"init", "migrate"})
           => /\ run[r].conn = "destroyed"
              /\ run[r].destroys = 1
        /\ run[r].conn = "destroyed"
           => /\ run[r].openTx = {} /\ run[r].txn = "none"
              /\ run[r].shutdowns = 1

\* C34: back-fill suppression. An init run in which the pre-check skipped an
\* init task does not complete the ledger: it adds no row of a version
\* folder, whether or not the transaction was renewed after the skip.
C34_BackfillSuppression ==
    \A r \in Slots :
        (run[r].op = "init" /\ run[r].skips # <<>>)
        => /\ ~run[r].filled
           /\ \A v \in Versions : RowsOf(Visible(r), v) = RowsOf(run[r].start, v)


(* ------------------------ C35: one transaction ------------------------ *)

\* the handle an operation of run r works on: the parameter lib/index.js
\* passes down the chain, the field of the object in part_000
transacting(r) ==
    IF impl = "lock" THEN run[r].handle ELSE self[InstanceOf(r)].transacting

\* the pcs of the hooks, of the tasks and of the operations on the ledger
InTransactional == {"op", "exec", "rec", "renew", "commit", "rollback"}

\* C35: a run has at most one transaction open, the next transaction of a
\* renewal begins when none is open, and every hook, task and ledger
\* operation works on the handle of the transaction that is open (a handle
\* stays open when a DDL statement has committed on the server)
C35_SingleOpenTransaction ==
    \A r \in Slots :
        /\ Cardinality(run[r].openTx) <= 1
        /\ run[r].pc = "begin" => run[r].openTx = {} /\ run[r].txn = "none"
        /\ run[r].pc \in InTransactional =>
              /\ run[r].txn # "none"
              /\ transacting(r)[1] = r
              /\ run[r].openTx = {transacting(r)[2]}

\* the second transaction of a part_000 run is open after a renewal, and an
\* operation of the run is about to use it
C35_Witness ==
    \E r \in Slots :
        /\ impl = "renew"
        /\ run[r].renewals >= 1
        /\ run[r].opened = 2
        /\ run[r].pc = "exec"
        /\ transacting(r) = <<r, 2>>


(* ------------------- C36: migrate before any init --------------------- *)

\* C36: a migrate run that has ended on a database without the migrations
\* and the migrations_lock table has rejected with MIGRATION_TABLE_IS_MISSING,
\* not with the error of the driver, and has executed no task
C36_MigrateUninitialised ==
    \A r \in Slots :
        (/\ run[r].op = "migrate"
         /\ run[r].pc = "done"
         /\ "migrations" \notin tables
         /\ "migrations_lock" \notin tables)
        => /\ run[r].result = "MIGRATION_TABLE_IS_MISSING"
           /\ run[r].ran = <<>>


(* -------------------- C37: release without acquire -------------------- *)

\* C37: a run whose lock() has not succeeded has written nothing to the
\* row of migrations_lock: no UPDATE of released_at is pending in its
\* transaction and released_at does not carry its stamp
C37_NoReleaseWithoutAcquire ==
    \A r \in Slots :
        (run[r].op \in {"init", "migrate"} /\ ~run[r].lockOk)
        => ~run[r].pendRel /\ releasedAt # run[r].serial


(* ------------------------ C38: durable release ------------------------ *)

\* C38: after a run that took the lock and rejected at the body of a task,
\* released_at of the km01 row carries the stamp of the run's unlock(): the
\* rollback of the run's transaction has not undone the release
C38_DurableRelease ==
    \A r \in Slots :
        (FailedAtTask(r) /\ run[r].lockOk /\ run[r].unlocks >= 1 /\ lockRows >= 1)
        => releasedAt = run[r].serial


(* -------------------- C39: two operations, one object ----------------- *)

\* C39: while an operation is in progress on an object, no finally of
\* another operation has destroyed the connection it opened, has cleared
\* the connection of the object, or has taken away the transaction handle
\* its hooks, tasks and ledger operations work on
C39_SameInstanceIsolation ==
    \A r \in Slots :
        /\ run[r].conn = "destroyed" => run[r].pc = "closed"
        /\ run[r].pc \notin {"idle", "closed"} => self[InstanceOf(r)].connection # 0
        /\ (run[r].pc \in InTransactional /\ impl = "renew")
              => self[InstanceOf(r)].transacting = run[r].handle

====
